---- MODULE Spec2Model ----
(***************************************************************************)
(* A model of the faker generation engine: the PCG random source, the      *)
(* SchemaImpl class (generate, generateMany, optional, transform, where,   *)
(* pipe, the option setters) and the composite generators that thread one  *)
(* GeneratorContext through a generation tree.                             *)
(***************************************************************************)
EXTENDS Integers, Sequences, FiniteSets, TLC

(***************************************************************************)
(* PCG.  The 64-bit state is kept as eight little-endian bytes, because    *)
(* the state and the multiplier do not fit the checker's integers; every   *)
(* operation below is exact arithmetic modulo 2^64.  A 32-bit output is    *)
(* kept as four little-endian bytes.                                       *)
(***************************************************************************)
Pow2(n) == CASE n = 0 -> 1 [] n = 1 -> 2 [] n = 2 -> 4 [] n = 3 -> 8
             [] n = 4 -> 16 [] n = 5 -> 32 [] n = 6 -> 64 [] n = 7 -> 128

\* 6364136223846793005 = 0x5851F42D4C957F2D
MULTIPLIER == <<45, 127, 149, 76, 45, 244, 81, 88>>

\* 1442695040888963407 = 0x14057B7EF767814F
DEFAULT_INC == <<79, 129, 103, 247, 126, 123, 5, 20>>

\* this.inc = DEFAULT_INC | 1: the low bit of the low byte is forced to 1
PcgInc == [DEFAULT_INC EXCEPT ![1] = IF DEFAULT_INC[1] % 2 = 1 THEN DEFAULT_INC[1]
                                       ELSE DEFAULT_INC[1] + 1]

U64Zero == <<0, 0, 0, 0, 0, 0, 0, 0>>

RECURSIVE ColSum(_, _, _, _)
ColSum(s, m, k, i) ==
    IF i > k THEN 0 ELSE s[i] * m[k + 1 - i] + ColSum(s, m, k, i + 1)

\* (s * m + c) & (2^64 - 1), byte column by byte column with carry
RECURSIVE MulAdd64(_, _, _, _, _)
MulAdd64(s, m, c, k, carry) ==
    IF k > 8 THEN <<>>
    ELSE LET col == carry + c[k] + ColSum(s, m, k, 1)
         IN  <<col % 256>> \o MulAdd64(s, m, c, k + 1, col \div 256)

\* s + n for a natural n, modulo 2^64
RECURSIVE AddNat64(_, _, _)
AddNat64(s, n, k) ==
    IF k > 8 THEN <<>>
    ELSE LET col == s[k] + n
         IN  <<col % 256>> \o AddNat64(s, col \div 256, k + 1)

\* PCG.step
Step(state) == MulAdd64(state, MULTIPLIER, PcgInc, 1, 0)

Abs(n) == IF n < 0 THEN -n ELSE n

\* BigInt(Math.abs(Math.floor(seed)) || 1) for an integer seed
SeedBig(seed) == IF Abs(seed) = 0 THEN 1 ELSE Abs(seed)

\* PCG.constructor: state = 0; step(); state += seedBig; step()
PCGNew(seed) == Step(AddNat64(Step(U64Zero), SeedBig(seed), 1))

Bit(state, k) == IF k > 63 THEN 0 ELSE (state[(k \div 8) + 1] \div Pow2(k % 8)) % 2

Xor(a, b) == IF a = b THEN 0 ELSE 1

\* bit j of xorShifted = ((oldState >> 18) ^ oldState) >> 27, cut to 32 bits
XorShifted(old, j) == Xor(Bit(old, j + 27), Bit(old, j + 45))

\* rot = Number(oldState >> 59) & 31
Rot(old) == old[8] \div 8

\* bit j of the right rotation of xorShifted by rot
OutBit(old, j) == XorShifted(old, (j + Rot(old)) % 32)

RECURSIVE OutByte(_, _, _)
OutByte(old, b, i) ==
    IF i > 7 THEN 0 ELSE OutBit(old, 8 * b + i) * Pow2(i) + OutByte(old, b, i + 1)

\* PCG.nextUint32: the output computed from the state before the step
Output32(old) == <<OutByte(old, 0, 0), OutByte(old, 1, 0), OutByte(old, 2, 0), OutByte(old, 3, 0)>>

\* x % range for 1 <= range <= 2^20, high byte first
Mod32(x, range) ==
    LET r3 == x[4] % range
        r2 == (r3 * 256 + x[3]) % range
        r1 == (r2 * 256 + x[2]) % range
    IN  (r1 * 256 + x[1]) % range

\* rng.next() < num/den, where next() = x / 2^32:  den * x < num * 2^32
FloatLess(x, num, den) ==
    LET hi == x[4] * 256 + x[3]
        lo == x[2] * 256 + x[1]
    IN  den * hi + ((den * lo) \div 65536) < num * 65536

(***************************************************************************)
(* JavaScript values.  Every value is a tagged tuple, so that two values   *)
(* of different types compare unequal.                                     *)
(***************************************************************************)
NoVal == <<"absent">>
Undefined == <<"undefined">>
Null == <<"null">>
Num(n) == <<"num", n>>
Bool(b) == <<"bool", b>>
Str(s) == <<"str", s>>
DateV(t) == <<"date", t>>
Arr(items) == <<"arr", items>>
Obj(fields) == <<"obj", fields>>
Fn(name) == <<"fn", name>>
Ref(kind, id) == <<kind, id>>
\* a string whose characters matter, as the sequence of its characters
Text(cs) == <<"text", cs>>
\* a RegExp, kept as the set of the characters it matches: /[..]/
RegExp(class) == <<"regexp", class>>

Has(x) == x[1] # "absent"

\* a ?? b
Coalesce(a, b) == IF a[1] \in {"absent", "undefined", "null"} THEN b ELSE a

\* the truthiness test of a || b and of if (a)
Truthy(a) ==
    CASE a[1] \in {"absent", "undefined", "null"} -> FALSE
      [] a[1] = "num" -> a[2] # 0
      [] a[1] = "bool" -> a[2]
      [] a[1] = "str" -> a[2] # ""
      [] a[1] = "text" -> a[2] # <<>>
      [] OTHER -> TRUE

OrElse(a, b) == IF Truthy(a) THEN a ELSE b

(***************************************************************************)
(* Option bags.  A bag is an object on the heap `bags`; a schema holds the *)
(* id of its own bag in currentOptions.                                    *)
(***************************************************************************)
BagKeys == {"length", "minLength", "maxLength", "unique", "sort", "min", "max",
            "onlyWeekdays", "onlyBusinessHours", "condition",
            "chars", "prefix", "suffix", "casing", "exclude", "pattern",
            "_isOptional", "probability", "_transformed", "_piped"}

EmptyBag == [k \in BagKeys |-> NoVal]

\* { ...a, ...b }
Spread(a, b) == [k \in BagKeys |-> IF Has(b[k]) THEN b[k] ELSE a[k]]

\* JSON.parse(JSON.stringify(v)) of an array item: a function and undefined
\* become null, a RegExp the empty object
JsonItem(v) ==
    CASE v[1] \in {"fn", "undefined", "absent"} -> Null
      [] v[1] = "date" -> <<"isostr", v[2]>>
      [] v[1] = "regexp" -> Obj(<<>>)
      [] OTHER -> v

\* JSON.parse(JSON.stringify(v)) of one property: a function and undefined are
\* dropped, a Date becomes its ISO string, a RegExp the empty object, the rest
\* is copied
JsonValue(v) ==
    CASE v[1] \in {"fn", "undefined", "absent"} -> NoVal
      [] v[1] = "date" -> <<"isostr", v[2]>>
      [] v[1] = "regexp" -> Obj(<<>>)
      [] v[1] = "arr" -> Arr([i \in DOMAIN v[2] |-> JsonItem(v[2][i])])
      [] OTHER -> v

JsonClone(bag) == [k \in BagKeys |-> JsonValue(bag[k])]

(***************************************************************************)
(* The state of one run: the PCG objects constructed so far (rngs[id] is   *)
(* the state of object id), the number of cache Maps allocated, the clock  *)
(* the run reads, the schema and option objects it reads, and a log of     *)
(* what the engine did.                                                    *)
(***************************************************************************)
Log(st, e) == [st EXCEPT !.log = Append(@, e)]

\* sequencing: the run state st is computed in full, then x is
Then(st, x) == IF st.depth >= 0 THEN x ELSE x

\* how control left the code that ran last: "no" when it returned, "throw"
\* while an exception is travelling up the stack, "hang" when it entered a loop
\* that has no exit
Ended(st) == st.ended # "no"

\* throw: the exception, raised by what, starts to travel
Throw(st, what) == [st EXCEPT !.ended = "throw",
                              !.log = Append(@, <<"throw", st.depth, what>>)]

\* PCG.nextUint32 on PCG object id: the output of the old state, one step; the
\* log entry names the object, the state it was drawn from and the state it
\* was left in
NextUint32Twice(st, id) ==
    LET Stepped(new) ==
            [x |-> Output32(st.rngs[id]),
             st |-> [st EXCEPT !.rngs[id] = Step(new),
                               !.log = Append(@, <<"draw", id, st.rngs[id], new>>)]]
    IN  Stepped(Step(st.rngs[id]))

NextUint32(st, id) ==
    LET Stepped(new) ==
            [x |-> Output32(st.rngs[id]),
             st |-> [st EXCEPT !.rngs[id] = new,
                               !.log = Append(@, <<"draw", id, st.rngs[id], new>>)]]
    IN  Stepped(Step(st.rngs[id]))

\* PCG.next: the float x / 4294967296 is kept as its numerator x
NextFloat(st, id) == NextUint32(st, id)

Bit32(x, j) == (x[(j \div 8) + 1] \div Pow2(j % 8)) % 2

\* 2 * r mod range, without leaving the 31-bit integers
Twice(r, range) == IF r >= range - r THEN r - (range - r) ELSE r + r

\* x % range for a range above 2^20, bit by bit from the top; the remainder r
\* is never negative
RECURSIVE ModBits(_, _, _, _)
ModBits(x, range, j, r) ==
    IF j < 0 \/ r < 0 THEN r
    ELSE LET d == Twice(r, range)
             e == IF Bit32(x, j) = 0 THEN d ELSE IF d + 1 = range THEN 0 ELSE d + 1
         IN  ModBits(x, range, j - 1, e)

\* Math.floor(0x100000000 / range) for a range above 2^20
Quot32(range) ==
    LET q0 == 1073741824 \div range
        r0 == 1073741824 % range
        a  == IF r0 >= range - r0 THEN 1 ELSE 0
        r1 == Twice(r0, range)
        b  == IF r1 >= range - r1 THEN 1 ELSE 0
    IN  4 * q0 + 2 * a + b

\* x >= limit, where limit = Math.floor(0x100000000 / range) * range
AtLeastLimit(x, range) ==
    LET q   == Quot32(range)
        rh  == range \div 65536
        rl  == range % 65536
        lhi == q * rh + ((q * rl) \div 65536)
        llo == (q * rl) % 65536
        xhi == x[4] * 256 + x[3]
        xlo == x[2] * 256 + x[1]
    IN  xhi > lhi \/ (xhi = lhi /\ xlo >= llo)

\* do { x = this.nextUint32() } while (x >= limit); return min + (x % range)
RECURSIVE Rejection(_, _, _, _)
Rejection(st, id, min, range) ==
    LET Drawn(d) ==
            IF AtLeastLimit(d.x, range) THEN Then(d.st, Rejection(d.st, id, min, range))
            ELSE [n |-> min + ModBits(d.x, range, 31, 0), st |-> d.st]
    IN  Drawn(NextUint32(st, id))

\* PCG.nextInt(min, max) for integer bounds
NextInt(st, id, min, max) ==
    LET lo == IF min > max THEN max ELSE min
        hi == IF min > max THEN min ELSE max
        range == hi - lo + 1
        Drawn(d) == [n |-> lo + Mod32(d.x, range), st |-> d.st]
    IN  IF lo = hi THEN [n |-> lo, st |-> st]
        ELSE IF range <= 1048576 THEN Drawn(NextUint32(st, id))
        ELSE Rejection(st, id, lo, range)

(***************************************************************************)
(* nextInt over the integers a JavaScript number holds exactly.  An        *)
(* integer n is kept as <<hi, lo>> with n = hi * 65536 + lo and            *)
(* 0 <= lo < 65536.                                                        *)
(***************************************************************************)
WNorm(hi, lo) == <<hi + (lo \div 65536), lo % 65536>>
WOf(n) == WNorm(0, n)
WAdd(a, b) == WNorm(a[1] + b[1], a[2] + b[2])
WSub(a, b) == WNorm(a[1] - b[1], a[2] - b[2])
WLess(a, b) == a[1] < b[1] \/ (a[1] = b[1] /\ a[2] < b[2])
WInt(a) == a[1] * 65536 + a[2]

\* a 32-bit output as an integer
WOut(x) == <<x[4] * 256 + x[3], x[2] * 256 + x[1]>>

\* Math.floor(0x100000000 / range) for a range of 2^31 and more
QuotWide(range) ==
    IF WLess(<<65536, 0>>, range) THEN 0
    ELSE IF range = <<32768, 0>> THEN 2
    ELSE 1

\* the rejection loop for a range of 2^31 and more: limit is 2^32 for the
\* ranges 2^31 and 2^32, and the range itself between the two
RECURSIVE RejectionWide(_, _, _, _)
RejectionWide(st, id, min, range) ==
    LET limit == IF QuotWide(range) = 2 THEN <<65536, 0>> ELSE range
        Drawn(d) ==
            IF ~WLess(WOut(d.x), limit)
            THEN Then(d.st, RejectionWide(d.st, id, min, range))
            ELSE [n  |-> WAdd(min, IF QuotWide(range) = 2
                                   THEN <<WOut(d.x)[1] % 32768, WOut(d.x)[2]>>
                                   ELSE WOut(d.x)),
                  st |-> d.st]
    IN  Drawn(NextUint32(st, id))

\* a variant that forgets to add min
NextIntFromZero(st, id, min, max) ==
    LET lo == IF WLess(max, min) THEN max ELSE min
        hi == IF WLess(max, min) THEN min ELSE max
        range == WAdd(WSub(hi, lo), <<0, 1>>)
        Offset(r) == [n |-> WOf(r.n), st |-> r.st]
    IN  IF lo = hi THEN [n |-> lo, st |-> st]
        ELSE IF range[1] < 32768 THEN Offset(NextInt(st, id, 0, WInt(range) - 1))
        ELSE IF QuotWide(range) = 0 THEN [n |-> lo, st |-> [st EXCEPT !.ended = "hang"]]
        ELSE RejectionWide(st, id, lo, range)

\* PCG.nextInt(min, max).  Below 2^31 the range is an integer of NextInt, whose
\* result between 0 and range - 1 is x % range.  Above 2^32 limit is 0, every
\* x >= limit, and the do .. while loop has no exit: the call never returns
NextIntWide(st, id, min, max) ==
    LET lo == IF WLess(max, min) THEN max ELSE min
        hi == IF WLess(max, min) THEN min ELSE max
        range == WAdd(WSub(hi, lo), <<0, 1>>)
        Offset(r) == [n |-> WAdd(lo, WOf(r.n)), st |-> r.st]
    IN  IF lo = hi THEN [n |-> lo, st |-> st]
        ELSE IF range[1] < 32768 THEN Offset(NextInt(st, id, 0, WInt(range) - 1))
        ELSE IF QuotWide(range) = 0 THEN [n |-> lo, st |-> [st EXCEPT !.ended = "hang"]]
        ELSE RejectionWide(st, id, lo, range)

(***************************************************************************)
(* generateDistributedValue.  A number is kept in thousandths, Num(1500)   *)
(* for 1.5, and NaN is a value of its own: a comparison with NaN is false  *)
(* and arithmetic on NaN gives NaN.  The factor the transcendental         *)
(* functions give (sqrt, log, cos) is an argument, in thousandths.         *)
(***************************************************************************)
NaN == <<"nan">>
Plus(a, b) == IF NaN \in {a, b} THEN NaN ELSE <<"num", a[2] + b[2]>>
Minus(a, b) == IF NaN \in {a, b} THEN NaN ELSE <<"num", a[2] - b[2]>>
Times(a, b) == IF NaN \in {a, b} THEN NaN ELSE <<"num", (a[2] * b[2]) \div 1000>>
Over(a, b) == IF NaN \in {a, b} THEN NaN ELSE <<"num", (a[2] * 1000) \div b[2]>>
Lt(a, b) == NaN \notin {a, b} /\ a[2] < b[2]
Le(a, b) == NaN \notin {a, b} /\ a[2] <= b[2]
\* Math.min and Math.max return NaN when an argument is NaN
MathMin(a, b) == IF NaN \in {a, b} THEN NaN ELSE IF a[2] < b[2] THEN a ELSE b
MathMax(a, b) == IF NaN \in {a, b} THEN NaN ELSE IF a[2] > b[2] THEN a ELSE b

\* min + rng.next() * (max - min), rounded down to a thousandth
Uniform(st, id, min, max) ==
    LET Scaled(d) ==
            LET w == Minus(max, min)[2]
                x == WOut(d.x)
            IN  [n  |-> <<"num", min[2] + ((w * x[1] + ((w * x[2]) \div 65536)) \div 65536)>>,
                 st |-> d.st]
    IN  Scaled(NextFloat(st, id))

\* do { u = rng.next() } while (u === 0)
RECURSIVE NonZero(_, _)
NonZero(st, id) ==
    LET Drawn(d) == IF d.x = <<0, 0, 0, 0>> THEN Then(d.st, NonZero(d.st, id)) ELSE d
    IN  Drawn(NextFloat(st, id))

\* generateDistributedValue(rng, distribution, { min, max, distributionOptions });
\* t is z = sqrt(-2 log u1) cos(2 pi u2) for normal and -log u for exponential
GenerateDistributedValue(st, id, distribution, options, t) ==
    LET min == Coalesce(options.min, <<"num", 0>>)
        max == Coalesce(options.max, <<"num", 1000>>)
        \* options.distributionOptions?.mean ?? (min + max) / 2
        mean   == Coalesce(options.mean, Over(Plus(min, max), <<"num", 2000>>))
        \* options.distributionOptions?.standardDeviation ?? (max - min) / 4
        stdDev == Coalesce(options.standardDeviation, Over(Minus(max, min), <<"num", 4000>>))
        \* options.distributionOptions?.lambda ?? 1 / ((max - min) / 2 || 1)
        lambda == Coalesce(options.lambda,
                           Over(<<"num", 1000>>, Over(Minus(max, min), <<"num", 2000>>)))
        Second(d) ==
            [n  |-> MathMax(min, MathMin(max, Plus(mean, Times(<<"num", t>>, stdDev)))),
             st |-> d.st]
        First(d) == Second(NextFloat(d.st, id))
        Inverse(d) ==
            [n |-> MathMin(max, Plus(min, Over(<<"num", t>>, lambda))), st |-> d.st]
    IN  IF Lt(max, min) THEN [n |-> min, st |-> Log(st, <<"warn", st.depth>>)]
        ELSE IF min = max THEN [n |-> min, st |-> st]
        ELSE IF distribution = "normal"
        THEN IF Le(stdDev, <<"num", 0>>)
             THEN Uniform(Log(st, <<"warn", st.depth>>), id, min, max)
             ELSE First(NonZero(st, id))
        ELSE IF distribution = "exponential"
        THEN IF Le(lambda, <<"num", 0>>)
             THEN Uniform(Log(st, <<"warn", st.depth>>), id, min, max)
             ELSE Inverse(NonZero(st, id))
        ELSE Uniform(st, id, min, max)

\* Infinity among the numbers in thousandths, and Number.MAX_SAFE_INTEGER
Infinity == 2000000000
MaxSafeInteger == 1000000000

\* Math.round of a number in thousandths, to a multiple of unit thousandths:
\* halves go up
RoundTo(v, unit) == <<"num", ((v[2] + (unit \div 2)) \div unit) * unit>>

\* Math.round(value * factor) / factor with factor = Math.pow(10, precision);
\* a number in thousandths has no digits past the third
Precise(v, precision) ==
    CASE precision = 0 -> RoundTo(v, 1000)
      [] precision = 1 -> RoundTo(v, 100)
      [] precision = 2 -> RoundTo(v, 10)
      [] OTHER -> v

\* number: the effective bounds under the positive and negative flags, the
\* value of the distribution, Math.round for integer, the precision, the final
\* clamp, and Math.round once more for integer without precision
NumberGen(st, id, opts, t) ==
    LET Zero(st1) == [n |-> <<"num", 0>>, st |-> Log(st1, <<"warn", st1.depth>>)]
        positive == opts.positive = Bool(TRUE)
        negative == opts.negative = Bool(TRUE)
        \* opts.min ?? -Infinity, opts.max ?? Infinity
        min0 == Coalesce(opts.min, <<"num", -Infinity>>)
        max0 == Coalesce(opts.max, <<"num", Infinity>>)
        min1 == IF positive THEN MathMax(min0, <<"num", 0>>) ELSE min0
        max1 == IF positive THEN MathMax(max0, <<"num", 0>>) ELSE max0
        effMax == IF negative THEN MathMin(max1, <<"num", 0>>) ELSE max1
        effMin == IF negative THEN MathMin(min1, <<"num", 0>>) ELSE min1
        precise == opts.precision # NoVal /\ opts.precision[2] >= 0
        Finished(d) ==
            LET rounded == IF Truthy(opts.integer) THEN RoundTo(d.n, 1000) ELSE d.n
                cut     == IF precise THEN Precise(rounded, opts.precision[2]) ELSE rounded
                clamped == MathMax(effMin, MathMin(effMax, cut))
            IN  [n  |-> IF Truthy(opts.integer) /\ ~precise THEN RoundTo(clamped, 1000)
                        ELSE clamped,
                 st |-> d.st]
    IN  IF positive /\ negative THEN Zero(st)
        ELSE IF positive /\ Lt(max0, <<"num", 0>>) THEN Zero(st)
        ELSE IF negative /\ Lt(<<"num", 0>>, min1) THEN Zero(st)
        ELSE IF Lt(effMax, effMin)
        THEN [n |-> IF effMin[2] = -Infinity THEN <<"num", 0>> ELSE effMin,
              st |-> Log(st, <<"warn", st.depth>>)]
        ELSE IF effMin = effMax THEN [n |-> effMin, st |-> st]
        ELSE Finished(GenerateDistributedValue(
                 st, id, Coalesce(opts.distribution, Str("uniform"))[2],
                 [min  |-> IF effMin[2] = -Infinity THEN <<"num", -MaxSafeInteger>> ELSE effMin,
                  max  |-> IF effMax[2] = Infinity THEN <<"num", MaxSafeInteger>> ELSE effMax,
                  mean |-> opts.mean, standardDeviation |-> opts.standardDeviation,
                  lambda |-> opts.lambda], t))

(***************************************************************************)
(* The program state: the SchemaImpl objects built so far, the option      *)
(* objects on the heap, the option objects the caller still holds, the     *)
(* wall clock (in hours since the epoch), and what the last call to        *)
(* generate or generateMany did.                                           *)
(***************************************************************************)
VARIABLES schemas, bags, userBags, now, last

vars == <<schemas, bags, userBags, now, last>>

\* 365 * 24 * 60 * 60 * 1000 ms, in hours
Year == 8760

\* a GeneratorContext, and the contextOptions given to generate: a property
\* that is not set is NoVal
EmptyCo == [rng |-> NoVal, cache |-> NoVal, locale |-> NoVal, seed |-> NoVal,
            index |-> NoVal, key |-> NoVal, parent |-> NoVal, path |-> NoVal,
            options |-> NoVal]

\* const opts = { ...context.options }
Props(ctx, st) == st.bags[ctx.options[2]]

\* `${context.path || ''}`
PathStr(ctx) == IF Truthy(ctx.path) THEN ctx.path[2] ELSE ""

\* the user-supplied predicates of where
PredEval(predicate, v) ==
    CASE predicate = "never" -> FALSE
      [] predicate = "ge2"   -> v[1] = "num" /\ v[2] >= 2
      [] predicate = "le2"   -> v[1] = "num" /\ v[2] <= 2
      [] predicate = "boom"  -> FALSE

\* the predicate () => { throw new Error() } returns nothing
PredThrows(predicate, v) == predicate = "boom"

\* the user-supplied functions of transform and pipe
ApplyFn(fn, v, ctx) ==
    CASE fn = "wrap"     -> Arr(<<v>>)
      [] fn = "withPath" -> Arr(<<v, ctx.path>>)
      [] fn = "boom"     -> Undefined

\* the function () => { throw new Error() } returns nothing
FnThrows(fn, v) == fn = "boom"

\* parent[key] of an object value
RECURSIVE Field(_, _, _)
Field(fields, key, i) ==
    IF i > Len(fields) THEN Undefined
    ELSE IF fields[i][1] = key THEN fields[i][2] ELSE Field(fields, key, i + 1)

PropOf(v, key) == IF v[1] = "obj" THEN Field(v[2], key, 1) ELSE Undefined

\* the user-supplied conditions of dependent: "true", "false" or "throw"
CondEval(condition, parent) ==
    CASE condition = "aGe2" ->
             LET a == PropOf(parent, "a")
             IN  IF a[1] = "num" /\ a[2] >= 2 THEN "true" ELSE "false"
      [] condition = "deep" ->
             \* parent => parent.a.b > 0
             IF PropOf(parent, "a")[1] \in {"undefined", "null"} THEN "throw" ELSE "false"

\* JSON.stringify(element), kept as the value the text denotes
RECURSIVE JsonText(_), JsonItems(_, _), JsonFields(_, _)
JsonText(v) ==
    CASE v[1] \in {"undefined", "fn", "absent"} -> Undefined
      [] v[1] = "date" -> <<"isostr", v[2]>>
      [] v[1] = "arr"  -> Arr(JsonItems(v[2], 1))
      [] v[1] = "obj"  -> Obj(JsonFields(v[2], 1))
      [] OTHER -> v
JsonItems(items, i) ==
    IF i > Len(items) THEN <<>>
    ELSE LET t == JsonText(items[i])
         IN  <<IF t = Undefined THEN Null ELSE t>> \o JsonItems(items, i + 1)
JsonFields(fields, i) ==
    IF i > Len(fields) THEN <<>>
    ELSE LET t == JsonText(fields[i][2])
         IN  (IF t = Undefined THEN <<>> ELSE <<<<fields[i][1], t>>>>)
             \o JsonFields(fields, i + 1)

\* parseDateOption(option, defaultDate).getTime()
ParseDateOption(option, defaultDate) ==
    CASE option[1] \in {"num", "isostr"} -> option[2]
      [] OTHER -> defaultDate

\* Math.floor(u * span) for u = x / 2^32 and 0 <= span < 2^15
Scale(x, span) ==
    LET hi == x[4] * 256 + x[3]
        lo == x[2] * 256 + x[1]
    IN  (hi * span + ((lo * span) \div 65536)) \div 65536

\* getDay() and getHours() of a time in hours; 1 January 1970 was a Thursday
DayOf(t) == ((t \div 24) + 4) % 7
HourOf(t) == t % 24
IsWeekday(t) == DayOf(t) > 0 /\ DayOf(t) < 6
IsBusinessHour(t) == HourOf(t) >= 9 /\ HourOf(t) < 17


(***************************************************************************)
(* Generation.  GenerateS is SchemaImpl.generate; Run applies a generator  *)
(* function (a closure, kept as a record naming its kind and what it       *)
(* captured) to a context.  Both return the value and the run state.  The  *)
(* result of a call is handed to the statements that follow it as the      *)
(* argument of a local operator.                                           *)
(***************************************************************************)
RECURSIVE GenerateS(_, _, _), AttemptLoop(_, _, _, _), Run(_, _, _),
          PipeLoop(_, _, _, _, _), ObjectLoop(_, _, _, _, _),
          ArrayLoop(_, _, _, _, _, _), DateLoop(_, _, _, _, _, _)

\* a variant that looks at the first constraint only
FirstFailingOfFirst(constraints, v, i) ==
    IF Len(constraints) > 0 /\ ~PredEval(constraints[1].predicate, v) THEN 1 ELSE 0

\* the index of the first constraint whose predicate fails on v, 0 if none
RECURSIVE FirstFailing(_, _, _)
FirstFailing(constraints, v, i) ==
    IF i > Len(constraints) THEN 0
    ELSE IF ~PredEval(constraints[i].predicate, v) THEN i
    ELSE FirstFailing(constraints, v, i + 1)

\* the predicate calls of one attempt, as log entries: every constraint up to
\* and including the first failing one
RECURSIVE PredLog(_, _, _, _, _)
PredLog(st, constraints, v, failing, i) ==
    IF i > Len(constraints) \/ (failing # 0 /\ i > failing) THEN st
    ELSE PredLog(Log(st, <<"pred", st.depth, i, v,
                           PredEval(constraints[i].predicate, v)>>),
                 constraints, v, failing, i + 1)

\* (this.constraints[0]?.retries ?? 10) + 1
MaxTotalAttempts(constraints) ==
    (IF Len(constraints) > 0 THEN constraints[1].retries ELSE 10) + 1

\* a variant in which contextOptions.options overrides the schema's own
FullContextInherited(self, co, seed, rngId, cache) ==
    [rng     |-> IF Has(co.rng) THEN co.rng ELSE Ref("rng", rngId),
     cache   |-> IF Has(co.cache) THEN co.cache ELSE cache,
     locale  |-> IF Has(co.locale) THEN co.locale ELSE Str("en-US"),
     seed    |-> IF Has(co.seed) THEN co.seed ELSE seed,
     index   |-> co.index,
     key     |-> co.key,
     parent  |-> co.parent,
     options |-> IF Has(co.options) THEN co.options ELSE Ref("bag", self.currentOptions),
     path    |-> OrElse(co.path, OrElse(co.key, Str("")))]

\* the fullContext of SchemaImpl.generate; rngId and cache are the objects
\* this call has just constructed
FullContext(self, co, seed, rngId, cache) ==
    [rng     |-> IF Has(co.rng) THEN co.rng ELSE Ref("rng", rngId),
     cache   |-> IF Has(co.cache) THEN co.cache ELSE cache,
     locale  |-> IF Has(co.locale) THEN co.locale ELSE Str("en-US"),
     seed    |-> IF Has(co.seed) THEN co.seed ELSE seed,
     index   |-> co.index,
     key     |-> co.key,
     parent  |-> co.parent,
     options |-> Ref("bag", self.currentOptions),
     path    |-> OrElse(co.path, OrElse(co.key, Str("")))]

\* the value and the run state of a result
Value(r) == [v |-> r.v, st |-> r.st]

GenerateS(sid, co, st) ==
    LET self   == st.schemas[sid]
        \* contextOptions.seed ?? Date.now() + Math.floor(Math.random() * 10000)
        seed   == Coalesce(co.seed, Num(st.fresh))
        \* new PCG(seed)
        rngId  == Len(st.rngs) + 1
        \* contextOptions['cache'] || new Map()
        fresh  == ~Truthy(co.cache)
        ncache == IF fresh THEN st.ncache + 1 ELSE st.ncache
        cache  == IF fresh THEN Ref("cache", ncache) ELSE co.cache
        ctx    == FullContext(self, co, seed, rngId, cache)
        st1    == [st EXCEPT !.rngs = Append(@, PCGNew(seed[2])),
                             !.ncache = ncache,
                             !.depth = @ + 1,
                             !.log = @ \o <<<<"new PCG", rngId>>,
                                            <<"generate", sid, st.depth + 1,
                                              ctx.rng, ctx.cache, ctx.seed,
                                              ctx.locale, ctx.options, ctx.key,
                                              ctx.parent, ctx.index, ctx.path>>>>]
        Returned(r) == [r EXCEPT !.st.depth = @ - 1]
    IN  Returned(AttemptLoop(sid, ctx, st1, 1))

\* one turn of the do .. while loop, attempts already counted up
AttemptLoop(sid, ctx, st, attempts) ==
    LET self == st.schemas[sid]
        Generated(r) ==
            LET Checked(failing) ==
                    LET Decided(st1) ==
                            IF failing = 0
                            THEN [v |-> r.v, st |-> st1, attempts |-> attempts,
                                  satisfied |-> TRUE]
                            \* predicate(result) is called outside any try
                            ELSE IF PredThrows(self.constraints[failing].predicate, r.v)
                            THEN [v |-> Undefined, st |-> Throw(st1, "predicate"),
                                  attempts |-> attempts, satisfied |-> FALSE]
                            ELSE IF attempts >= MaxTotalAttempts(self.constraints)
                            THEN [v |-> r.v, st |-> Log(st1, <<"warn", st1.depth>>),
                                  attempts |-> attempts, satisfied |-> FALSE]
                            ELSE Then(st1, AttemptLoop(sid, ctx, st1, attempts + 1))
                    IN  Decided(PredLog(r.st, self.constraints, r.v, failing, 1))
            IN  IF Ended(r.st)
                THEN [v |-> Undefined, st |-> r.st, attempts |-> attempts,
                      satisfied |-> FALSE]
                ELSE Checked(FirstFailing(self.constraints, r.v, 1))
    IN  Generated(Run(self.generatorFn, ctx, Log(st, <<"attempt", st.depth, attempts>>)))

\* literal: () => value
LiteralGen(g, ctx, st) == [v |-> g.value, st |-> st]

\* enumValue: values[rng.nextInt(0, values.length - 1)]
EnumGen(g, ctx, st) ==
    LET Picked(d) == [v  |-> IF d.n + 1 \in DOMAIN g.values THEN g.values[d.n + 1]
                             ELSE Undefined,
                      st |-> d.st]
    IN  Picked(NextInt(st, ctx.rng[2], 0, Len(g.values) - 1))

\* a variant that runs the wrapped generator before it draws
OptionalGenInnerFirst(g, ctx, st) ==
    LET Ran(r) ==
            LET Drawn(d) == IF FloatLess(d.x, g.p[1], g.p[2]) THEN [v |-> r.v, st |-> d.st]
                            ELSE [v |-> Null, st |-> d.st]
            IN  Drawn(NextFloat(r.st, ctx.rng[2]))
    IN  Ran(Run(g.inner, ctx, st))

\* optional: ctx => (ctx.rng.next() < p ? this.generatorFn(ctx) : null)
OptionalGen(g, ctx, st) ==
    LET Drawn(d) == IF FloatLess(d.x, g.p[1], g.p[2]) THEN Run(g.inner, ctx, d.st)
                    ELSE [v |-> Null, st |-> d.st]
    IN  Drawn(NextFloat(st, ctx.rng[2]))

\* a variant that runs the wrapped generator twice and keeps the second value
TransformGenTwice(g, ctx, st) ==
    LET Applied(r) == [v |-> ApplyFn(g.fn, r.v, ctx), st |-> r.st]
        Again2(r) == Applied(Run(g.inner, ctx, r.st))
    IN  Again2(Run(g.inner, ctx, st))

\* transform: ctx => fn(this.generatorFn(ctx), ctx)
TransformGen(g, ctx, st) ==
    LET Applied(r) ==
            IF Ended(r.st) THEN [v |-> Undefined, st |-> r.st]
            ELSE IF FnThrows(g.fn, r.v) THEN [v |-> Undefined, st |-> Throw(r.st, "fn")]
            ELSE [v |-> ApplyFn(g.fn, r.v, ctx), st |-> r.st]
    IN  Applied(Run(g.inner, ctx, st))

\* pipe: let v = this.generatorFn(ctx); for (const t of tf) v = t(v, ctx)
PipeLoop(tf, i, v, ctx, st) ==
    IF i > Len(tf) THEN [v |-> v, st |-> st]
    ELSE IF FnThrows(tf[i], v) THEN [v |-> Undefined, st |-> Throw(st, "fn")]
    ELSE PipeLoop(tf, i + 1, ApplyFn(tf[i], v, ctx), ctx, st)

PipeGen(g, ctx, st) ==
    LET Piped(r) == IF Ended(r.st) THEN [v |-> Undefined, st |-> r.st]
                    ELSE PipeLoop(g.tf, 1, r.v, ctx, r.st)
    IN  Piped(Run(g.inner, ctx, st))

\* a variant that hands no rng down
ContextBaseWithoutRng(ctx) ==
    [EmptyCo EXCEPT !.cache = ctx.cache, !.locale = ctx.locale, !.seed = ctx.seed]

\* propertyContextBase of object, elementContextBase of array
ContextBase(ctx) ==
    [EmptyCo EXCEPT !.rng = ctx.rng, !.cache = ctx.cache,
                    !.locale = ctx.locale, !.seed = ctx.seed]

\* the array index a property key is, -1 when it is none
ArrayIndex(key) ==
    CASE key = "0" -> 0
      [] key = "1" -> 1
      [] OTHER -> -1

\* the properties whose key is an array index, from index n on in ascending
\* order
RECURSIVE Ascending(_, _)
Ascending(shape, n) ==
    IF \A i \in DOMAIN shape : ArrayIndex(shape[i][1]) < n THEN <<>>
    ELSE SelectSeq(shape, LAMBDA e : ArrayIndex(e[1]) = n) \o Ascending(shape, n + 1)

\* for (const key in shape): the own properties in property order, which is
\* array indices ascending and then the other keys as they were created
ForIn(shape) ==
    Ascending(shape, 0) \o SelectSeq(shape, LAMBDA e : ArrayIndex(e[1]) < 0)

\* a loop whose path always has the dot, whatever the path of the object is
RECURSIVE ObjectLoopDotted(_, _, _, _, _)
ObjectLoopDotted(shape, i, result, ctx, st) ==
    IF i > Len(shape) THEN [v |-> Obj(result), st |-> st]
    ELSE LET key == shape[i][1]
             co  == [ContextBase(ctx) EXCEPT
                        !.key = Str(key),
                        !.parent = Obj(result),
                        !.path = Str(PathStr(ctx) \o "." \o key)]
             Assigned(r) ==
                 IF Ended(r.st) THEN [v |-> Undefined, st |-> r.st]
                 ELSE
                 Then(r.st, ObjectLoopDotted(shape, i + 1,
                                             IF r.v # Undefined
                                             THEN Append(result, <<key, r.v>>) ELSE result,
                                             ctx, r.st))
         IN  Assigned(GenerateS(shape[i][2], co, st))

\* object: the fields for .. in enumerates; an undefined value sets no key
ObjectLoop(shape, i, result, ctx, st) ==
    IF i > Len(shape) THEN [v |-> Obj(result), st |-> st]
    ELSE LET key == shape[i][1]
             co  == [ContextBase(ctx) EXCEPT
                        !.key = Str(key),
                        !.parent = Obj(result),
                        !.path = Str(PathStr(ctx)
                                     \o (IF Truthy(ctx.path) THEN "." ELSE "") \o key)]
             Assigned(r) ==
                 IF Ended(r.st) THEN [v |-> Undefined, st |-> r.st]
                 ELSE
                 Then(r.st, ObjectLoop(shape, i + 1,
                                       IF r.v # Undefined
                                       THEN Append(result, <<key, r.v>>) ELSE result,
                                       ctx, r.st))
         IN  Assigned(GenerateS(shape[i][2], co, st))

ObjectGen(g, ctx, st) == ObjectLoop(ForIn(g.shape), 1, <<>>, ctx, st)

\* union: schemas[rng.nextInt(0, schemas.length - 1)].generate({ ...context })
UnionGen(g, ctx, st) ==
    LET Chosen(d) ==
            \* selectedSchema.generate of undefined is a TypeError
            IF d.n + 1 \notin DOMAIN g.schemas
            THEN [v |-> Undefined, st |-> Throw(d.st, "TypeError")]
            ELSE Value(GenerateS(g.schemas[d.n + 1], ctx, d.st))
    IN  Chosen(NextInt(st, ctx.rng[2], 0, Len(g.schemas) - 1))

\* locale: schema.generate({ ...context, locale: localeCode })
LocaleGen(g, ctx, st) ==
    Value(GenerateS(g.schema, [ctx EXCEPT !.locale = Str(g.localeCode)], st))

\* a variant that does not ask the condition
DependentGenAlways(g, ctx, st) == Value(GenerateS(g.schema, ctx, st))

\* dependent: undefined without a parent, when the condition is false and when
\* it throws; schema.generate({ ...context }) when it is true.  The closure
\* holds the caller's options object and reads options.condition at each call.
\* The try block holds the call of schema.generate too, so that an exception
\* that leaves it is caught by the same catch
DependentGen(g, ctx, st) ==
    IF ~Truthy(ctx.parent) THEN [v |-> Undefined, st |-> Log(st, <<"warn", st.depth>>)]
    ELSE LET c == CondEval(st.bags[g.options]["condition"][2], ctx.parent)
             Caught(r) ==
                 IF r.st.ended = "throw"
                 THEN [v |-> Undefined,
                       st |-> [r.st EXCEPT !.ended = "no",
                                           !.log = Append(@, <<"error", st.depth>>)]]
                 ELSE Value(r)
         IN  IF c = "true" THEN Caught(GenerateS(g.schema, ctx, st))
             ELSE IF c = "false" THEN [v |-> Undefined, st |-> st]
             ELSE [v |-> Undefined, st |-> Log(st, <<"error", st.depth>>)]

\* custom: the user's function is the generator function; calling what is not
\* a function is a TypeError
CustomGen(g, ctx, st) ==
    IF g.fn[1] # "fn" THEN [v |-> Undefined, st |-> Throw(st, "TypeError")]
    ELSE [v |-> Str(PathStr(ctx)), st |-> st]

\* reference: collection[rng.nextInt(0, collection.length - 1)], or its idField
ReferenceGen(g, ctx, st) ==
    LET Selected(d) ==
            LET selectedItem == IF d.n + 1 \in DOMAIN g.collection
                                THEN g.collection[d.n + 1] ELSE Undefined
            IN  IF selectedItem[1] \in {"undefined", "null"}
                THEN [v |-> Undefined, st |-> Log(d.st, <<"warn", d.st.depth>>)]
                ELSE IF g.idField # Undefined /\ PropOf(selectedItem, g.idField[2]) # Undefined
                THEN [v |-> PropOf(selectedItem, g.idField[2]), st |-> d.st]
                ELSE IF g.idField # Undefined
                THEN [v |-> selectedItem, st |-> Log(d.st, <<"warn", d.st.depth>>)]
                ELSE [v |-> selectedItem, st |-> d.st]
    IN  Selected(NextInt(st, ctx.rng[2], 0, Len(g.collection) - 1))

\* the default comparator of the array sort, on the values the model sorts:
\* a - b for two numbers, String(a).localeCompare(String(b)) otherwise, where
\* a digit sorts before the "n" of "null"
SortsAfter(a, b) ==
    CASE a[1] = "num" /\ b[1] = "num" -> a[2] > b[2]
      [] a[1] = "null" /\ b[1] = "num" -> TRUE
      [] OTHER -> FALSE

\* cmp(a, b) > 0 for the comparator functions a caller passes to sort: desc
\* is (a, b) => b - a, which is NaN, and no order, unless both are numbers
ComparesAfter(cmp, a, b) ==
    CASE cmp = "desc" -> a[1] = "num" /\ b[1] = "num" /\ b[2] > a[2]
      [] OTHER -> FALSE

\* results.sort(opts.sort) with a comparator function, stable, by insertion
RECURSIVE InsertBy(_, _, _, _), SortItemsBy(_, _, _, _)
InsertBy(cmp, sorted, x, i) ==
    IF i < 1 \/ ~ComparesAfter(cmp, sorted[i], x)
    THEN SubSeq(sorted, 1, i) \o <<x>> \o SubSeq(sorted, i + 1, Len(sorted))
    ELSE InsertBy(cmp, sorted, x, i - 1)
SortItemsBy(cmp, items, i, sorted) ==
    IF i > Len(items) THEN sorted
    ELSE SortItemsBy(cmp, items, i + 1, InsertBy(cmp, sorted, items[i], Len(sorted)))

\* results.sort(cmp), stable, by insertion
RECURSIVE Insert(_, _, _), SortItems(_, _, _)
Insert(sorted, x, i) ==
    IF i < 1 \/ ~SortsAfter(sorted[i], x)
    THEN SubSeq(sorted, 1, i) \o <<x>> \o SubSeq(sorted, i + 1, Len(sorted))
    ELSE Insert(sorted, x, i - 1)
SortItems(items, i, sorted) ==
    IF i > Len(items) THEN sorted
    ELSE SortItems(items, i + 1, Insert(sorted, items[i], Len(sorted)))

\* a turn that pushes the element whatever uniqueValues holds
ArrayTurnKeepsDuplicates(g, length, acc, ctx) ==
    IF Ended(acc.st) \/ ~(Len(acc.v.items) < length) THEN acc
    ELSE LET results == acc.v
             index == Len(results.items)
             co    == [ContextBase(ctx) EXCEPT
                          !.index = Num(index),
                          !.parent = Arr(results.items),
                          !.path = Str(PathStr(ctx) \o "[" \o ToString(index) \o "]")]
             Generated(r) ==
                 IF Ended(r.st) THEN [v |-> results, st |-> r.st]
                 ELSE [v  |-> [results EXCEPT !.items = Append(@, r.v)], st |-> r.st]
         IN  CHOOSE turn \in {Generated(r) : r \in {GenerateS(g.elementSchema, co, acc.st)}} :
                 TRUE

\* array: one turn of while (results.length < length && attempts < ..); a loop
\* that has ended is left as it is.  acc is the results and the run state
ArrayTurn(g, length, acc, ctx) ==
    IF Ended(acc.st) \/ ~(Len(acc.v.items) < length) THEN acc
    ELSE LET results == acc.v
             index == Len(results.items)
             co    == [ContextBase(ctx) EXCEPT
                          !.index = Num(index),
                          !.parent = Arr(results.items),
                          !.path = Str(PathStr(ctx) \o "[" \o ToString(index) \o "]")]
             \* elementKey = JSON.stringify(element)
             Generated(r) ==
                 IF Ended(r.st) \/ (results.unique /\ JsonText(r.v) \in results.keys)
                 THEN [v |-> results, st |-> r.st]
                 ELSE [v  |-> [results EXCEPT
                                  !.items = Append(@, r.v),
                                  !.keys = IF results.unique
                                           THEN @ \cup {JsonText(r.v)} ELSE @],
                       st |-> r.st]
         IN  CHOOSE turn \in {Generated(r) : r \in {GenerateS(g.elementSchema, co, acc.st)}} :
                 TRUE

\* the turns lo .. hi of the loop, attempts < maxTotalAttempts being the turns
\* 1 .. maxTotalAttempts; the first half is run to its end before the second
ArrayLoop(g, length, lo, hi, acc, ctx) ==
    IF lo > hi THEN acc
    ELSE IF lo = hi THEN ArrayTurn(g, length, acc, ctx)
    ELSE CHOOSE out \in {ArrayLoop(g, length, ((lo + hi) \div 2) + 1, hi, half, ctx) :
                             half \in {ArrayLoop(g, length, lo, (lo + hi) \div 2, acc, ctx)}} :
             TRUE

ArrayGen(g, ctx, st) ==
    LET opts   == Props(ctx, st)
        minLen == Coalesce(opts["minLength"], Num(0))
        maxLen == Coalesce(opts["maxLength"], Num(10))
        unique == Truthy(opts["unique"])
        \* a number option as an integer of nextInt
        Wide(v) == IF v[1] = "wide" THEN v[2] ELSE WOf(v[2])
        Narrow(r) == [n |-> IF Ended(r.st) THEN 0 ELSE WInt(r.n), st |-> r.st]
        Sized(drawn) ==
            LET length == IF drawn.n < 0 THEN 0 ELSE drawn.n
                maxTotalAttempts == length * (IF unique THEN 5 ELSE 1) + 20
                Filled(r) ==
                    IF Ended(r.st) THEN [v |-> Undefined, st |-> r.st]
                    ELSE
                    [v  |-> Arr(IF ~Truthy(opts["sort"]) THEN r.v.items
                                \* typeof opts.sort === 'function'
                                ELSE IF opts["sort"][1] = "fn"
                                THEN SortItemsBy(opts["sort"][2], r.v.items, 1, <<>>)
                                ELSE SortItems(r.v.items, 1, <<>>)),
                     st |-> IF Len(r.v.items) < length
                            THEN Log(r.st, <<"warn", st.depth>>) ELSE r.st]
            IN  IF Ended(drawn.st) THEN [v |-> Undefined, st |-> drawn.st]
                ELSE Filled(ArrayLoop(g, length, 1, maxTotalAttempts,
                                      [v  |-> [items |-> <<>>, keys |-> {}, unique |-> unique],
                                       st |-> drawn.st],
                                      ctx))
    IN  \* opts.length ?? rng.nextInt(minLen, maxLen)
        IF Coalesce(opts["length"], NoVal) = NoVal
        THEN Sized(Narrow(NextIntWide(st, ctx.rng[2], Wide(minLen), Wide(maxLen))))
        ELSE Sized([n |-> opts["length"][2], st |-> st])

\* date: do { attempts++; ... } while (attempts < maxAttempts), uniform
DateLoop(opts, minTime, maxTime, attempts, rng, st) ==
    LET Drawn(d) ==
            LET t  == minTime + Scale(d.x, maxTime - minTime)
                ok == IF Truthy(opts["onlyBusinessHours"])
                      THEN IsWeekday(t) /\ IsBusinessHour(t)
                      ELSE IF Truthy(opts["onlyWeekdays"]) THEN IsWeekday(t)
                      ELSE TRUE
            IN  IF ok THEN [v |-> DateV(t), st |-> d.st]
                ELSE IF attempts < 100
                THEN Then(d.st, DateLoop(opts, minTime, maxTime, attempts + 1, rng, d.st))
                ELSE [v |-> DateV(t), st |-> Log(d.st, <<"warn", d.st.depth>>)]
    IN  Drawn(NextFloat(st, rng))

DateGen(g, ctx, st) ==
    LET opts == Props(ctx, st)
        \* defaultMax = new Date(); defaultMin = one year before it
        defaultMax == st.now
        defaultMin == st.now - Year
        min0 == ParseDateOption(opts["min"], defaultMin)
        max0 == ParseDateOption(opts["max"], defaultMax)
        minTime == IF min0 > max0 THEN max0 ELSE min0
        maxTime == IF min0 > max0 THEN min0 ELSE max0
    IN  IF minTime = maxTime
        THEN IF (Truthy(opts["onlyBusinessHours"])
                   /\ ~(IsWeekday(minTime) /\ IsBusinessHour(minTime)))
                \/ (Truthy(opts["onlyWeekdays"]) /\ ~IsWeekday(minTime))
             THEN [v |-> DateV(maxTime), st |-> Log(st, <<"warn", st.depth>>)]
             ELSE [v |-> DateV(minTime), st |-> st]
        ELSE DateLoop(opts, minTime, maxTime, 1, ctx.rng[2], st)

\* DEFAULT_CHARS
UpperChars == <<"A", "B", "C", "D", "E", "F", "G", "H", "I", "J", "K", "L", "M",
                "N", "O", "P", "Q", "R", "S", "T", "U", "V", "W", "X", "Y", "Z">>
LowerChars == <<"a", "b", "c", "d", "e", "f", "g", "h", "i", "j", "k", "l", "m",
                "n", "o", "p", "q", "r", "s", "t", "u", "v", "w", "x", "y", "z">>
DigitChars == <<"0", "1", "2", "3", "4", "5", "6", "7", "8", "9">>
DefaultChars == UpperChars \o LowerChars \o DigitChars

\* toUpperCase and toLowerCase of one character
ToUpperCase(c) ==
    IF \E i \in DOMAIN LowerChars : LowerChars[i] = c
    THEN UpperChars[CHOOSE i \in DOMAIN LowerChars : LowerChars[i] = c] ELSE c
ToLowerCase(c) ==
    IF \E i \in DOMAIN UpperChars : UpperChars[i] = c
    THEN LowerChars[CHOOSE i \in DOMAIN UpperChars : UpperChars[i] = c] ELSE c

\* \w of a regular expression
IsWordChar(c) == c = "_" \/ \E i \in DOMAIN DefaultChars : DefaultChars[i] = c

\* the switch on opts.casing
Casing(casing, cs) ==
    CASE casing = "lower" -> [i \in DOMAIN cs |-> ToLowerCase(cs[i])]
      [] casing = "upper" -> [i \in DOMAIN cs |-> ToUpperCase(cs[i])]
      [] casing = "capitalize" ->
             [i \in DOMAIN cs |-> IF i = 1 THEN ToUpperCase(cs[i]) ELSE ToLowerCase(cs[i])]
      \* result.replace(/\b\w/g, l => l.toUpperCase())
      [] casing = "title" ->
             [i \in DOMAIN cs |->
                 IF IsWordChar(cs[i]) /\ (i = 1 \/ ~IsWordChar(cs[i - 1]))
                 THEN ToUpperCase(cs[i]) ELSE cs[i]]
      [] OTHER -> cs

\* regexp.test(cs) for a RegExp of one character class
Test(regexp, cs) == \E i \in DOMAIN cs : cs[i] \in regexp[2]

\* exclusions.some(ex => (typeof ex === 'string' && ex.includes(char)) ||
\*                       (ex instanceof RegExp && ex.test(char)))
Excluded(exclude, char) ==
    LET exclusions == IF exclude[1] = "arr" THEN exclude[2] ELSE <<exclude>>
    IN  \E i \in DOMAIN exclusions :
            LET ex == exclusions[i]
            IN  \/ ex[1] = "text" /\ (\E n \in DOMAIN ex[2] : ex[2][n] = char)
                \/ ex[1] = "regexp" /\ Test(ex, <<char>>)

\* string: one turn of the while loop, attempts being the number of this
\* turn; acc is the generated part, whether the loop was left by break, and
\* the run state
StringTurn(opts, chars, targetBodyLength, attempts, acc, rng) ==
    IF Ended(acc.st) \/ acc.broke \/ ~(Len(acc.part) < targetBodyLength) THEN acc
    ELSE LET Drawn(d) ==
                 LET char == chars[d.n + 1]
                     excluded == IF Truthy(opts["exclude"])
                                 THEN Excluded(opts["exclude"], char) ELSE FALSE
                 IN  IF Ended(d.st) THEN [acc EXCEPT !.st = d.st]
                     ELSE IF ~excluded
                     THEN [part |-> Append(acc.part, char), broke |-> FALSE, st |-> d.st]
                     ELSE IF attempts > 30 * targetBodyLength + 40
                     THEN [part |-> acc.part, broke |-> TRUE,
                           st |-> Log(d.st, <<"warn", d.st.depth>>)]
                     ELSE [acc EXCEPT !.st = d.st]
         IN  CHOOSE turn \in {Drawn(d) : d \in {NextInt(acc.st, rng, 0, Len(chars) - 1)}} :
                 TRUE

\* the turns lo .. hi of the loop, of which there are at most
\* maxAttemptsPerChar * targetBodyLength + 50
RECURSIVE StringLoop(_, _, _, _, _, _, _)
StringLoop(opts, chars, targetBodyLength, lo, hi, acc, rng) ==
    IF lo > hi THEN acc
    ELSE IF lo = hi THEN StringTurn(opts, chars, targetBodyLength, lo, acc, rng)
    ELSE CHOOSE out \in {StringLoop(opts, chars, targetBodyLength,
                                    ((lo + hi) \div 2) + 1, hi, half, rng) :
                             half \in {StringLoop(opts, chars, targetBodyLength,
                                                  lo, (lo + hi) \div 2, acc, rng)}} :
             TRUE

\* string: the length, the body of characters drawn from chars that no
\* exclusion rejects, prefix and suffix around it, the casing of the whole,
\* and the test of the pattern, which is a method call on opts.pattern
StringGen(g, ctx, st) ==
    LET opts   == Props(ctx, st)
        minLen == Coalesce(opts["minLength"], Num(5))
        maxLen == Coalesce(opts["maxLength"], Num(10))
        Wide(v) == IF v[1] = "wide" THEN v[2] ELSE WOf(v[2])
        Narrow(r) == [n |-> IF Ended(r.st) THEN 0 ELSE WInt(r.n), st |-> r.st]
        chars  == OrElse(opts["chars"], Text(DefaultChars))[2]
        prefix == OrElse(opts["prefix"], Text(<<>>))[2]
        suffix == OrElse(opts["suffix"], Text(<<>>))[2]
        Sized(drawn) ==
            LET length == IF drawn.n < 0 THEN 0 ELSE drawn.n
                Made(r) ==
                    LET st1    == IF Len(r.part) < length
                                  THEN Log(r.st, <<"warn", st.depth>>) ELSE r.st
                        joined == prefix \o r.part \o suffix
                        result == IF Truthy(opts["casing"])
                                  THEN Casing(opts["casing"][2], joined) ELSE joined
                    IN  IF Ended(r.st) THEN [v |-> Undefined, st |-> r.st]
                        ELSE IF ~Truthy(opts["pattern"]) THEN [v |-> Text(result), st |-> st1]
                        \* opts.pattern.test of an object that is no RegExp
                        ELSE IF opts["pattern"][1] # "regexp"
                        THEN [v |-> Undefined, st |-> Throw(st1, "TypeError")]
                        ELSE IF ~Test(opts["pattern"], result)
                        THEN [v |-> Text(result), st |-> Log(st1, <<"warn", st.depth>>)]
                        ELSE [v |-> Text(result), st |-> st1]
            IN  IF Ended(drawn.st) THEN [v |-> Undefined, st |-> drawn.st]
                ELSE Made(StringLoop(opts, chars, length, 1, 30 * length + 50,
                                     [part |-> <<>>, broke |-> FALSE, st |-> drawn.st],
                                     ctx.rng[2]))
    IN  \* opts.length ?? rng.nextInt(minLen, maxLen)
        IF Coalesce(opts["length"], NoVal) = NoVal
        THEN Sized(Narrow(NextIntWide(st, ctx.rng[2], Wide(minLen), Wide(maxLen))))
        ELSE Sized([n |-> opts["length"][2], st |-> st])

\* the template 'xxxxxxxx-xxxx-4xxx-yxxx-xxxxxxxxxxxx' and the digits of
\* toString(16)
UuidTemplate ==
    <<"x", "x", "x", "x", "x", "x", "x", "x", "-", "x", "x", "x", "x", "-",
      "4", "x", "x", "x", "-", "y", "x", "x", "x", "-",
      "x", "x", "x", "x", "x", "x", "x", "x", "x", "x", "x", "x">>
HexChars == <<"0", "1", "2", "3", "4", "5", "6", "7", "8", "9", "a", "b", "c", "d", "e", "f">>

\* a replacer that uses r for y as it does for x
UuidTurnPlain(i, acc, rng) ==
    IF Ended(acc.st) THEN acc
    ELSE IF UuidTemplate[i] \notin {"x", "y"}
    THEN [acc EXCEPT !.part = Append(@, UuidTemplate[i])]
    ELSE LET Replaced(d) == [part |-> Append(acc.part, HexChars[d.n + 1]), st |-> d.st]
         IN  CHOOSE turn \in {Replaced(d) : d \in {NextInt(acc.st, rng, 0, 15)}} : TRUE

\* uuid: replace(/[xy]/g, c => ..) at character i of the template: r for x,
\* (r & 0x3) | 0x8 for y, as a hex digit; the other characters stay
UuidTurn(i, acc, rng) ==
    IF Ended(acc.st) THEN acc
    ELSE IF UuidTemplate[i] \notin {"x", "y"}
    THEN [acc EXCEPT !.part = Append(@, UuidTemplate[i])]
    ELSE LET Replaced(d) ==
                 LET v == IF UuidTemplate[i] = "x" THEN d.n ELSE (d.n % 4) + 8
                 IN  [part |-> Append(acc.part, HexChars[v + 1]), st |-> d.st]
         IN  CHOOSE turn \in {Replaced(d) : d \in {NextInt(acc.st, rng, 0, 15)}} : TRUE

\* the characters lo .. hi of the template, from the left
RECURSIVE UuidLoop(_, _, _, _)
UuidLoop(lo, hi, acc, rng) ==
    IF lo > hi THEN acc
    ELSE IF lo = hi THEN UuidTurn(lo, acc, rng)
    ELSE CHOOSE out \in {UuidLoop(((lo + hi) \div 2) + 1, hi, half, rng) :
                             half \in {UuidLoop(lo, (lo + hi) \div 2, acc, rng)}} : TRUE

UuidGen(g, ctx, st) ==
    LET Made(r) == [v |-> IF Ended(r.st) THEN Undefined ELSE Text(r.part), st |-> r.st]
    IN  Made(UuidLoop(1, Len(UuidTemplate), [part |-> <<>>, st |-> st], ctx.rng[2]))

Run(g, ctx, st0) ==
    LET Body(st) ==
            CASE g.k = "literal"   -> LiteralGen(g, ctx, st)
              [] g.k = "enum"      -> EnumGen(g, ctx, st)
              [] g.k = "date"      -> DateGen(g, ctx, st)
              [] g.k = "optional"  -> OptionalGen(g, ctx, st)
              [] g.k = "transform" -> TransformGen(g, ctx, st)
              [] g.k = "pipe"      -> PipeGen(g, ctx, st)
              [] g.k = "object"    -> ObjectGen(g, ctx, st)
              [] g.k = "array"     -> ArrayGen(g, ctx, st)
              [] g.k = "union"     -> UnionGen(g, ctx, st)
              [] g.k = "locale"    -> LocaleGen(g, ctx, st)
              [] g.k = "dependent" -> DependentGen(g, ctx, st)
              [] g.k = "custom"    -> CustomGen(g, ctx, st)
              [] g.k = "reference" -> ReferenceGen(g, ctx, st)
              [] g.k = "string"    -> StringGen(g, ctx, st)
              [] g.k = "uuid"      -> UuidGen(g, ctx, st)
    IN  Body(Log(st0, <<"fn", g.k, st0.depth>>))

\* the run state at the start of a top-level call made at time t on the
\* objects of heap; fresh is what Date.now() + Math.floor(Math.random() * 10000)
\* gives
RunOn(heap, t, fresh) ==
    [rngs |-> <<>>, ncache |-> 0, log |-> <<>>, depth |-> 0, now |-> t, fresh |-> fresh,
     schemas |-> heap.schemas, bags |-> heap.bags, ended |-> "no"]

\* generateMany: one PCG and one cache, then generate for each index
RECURSIVE ManyLoop(_, _, _, _, _, _)
ManyLoop(sid, count, i, base, results, st) ==
    IF ~(i < count) THEN [v |-> Arr(results), st |-> st]
    ELSE LET Pushed(r) ==
                 IF Ended(r.st) THEN [v |-> Undefined, st |-> r.st]
                 ELSE
                 Then(r.st, ManyLoop(sid, count, i + 1, base, Append(results, r.v), r.st))
         IN  Pushed(GenerateS(sid,
                              [base EXCEPT !.index = Num(i),
                                           !.path = Str("[" \o ToString(i) \o "]")],
                              Log(st, <<"element", i>>)))

GenerateManyS(sid, count0, seedOpt, st) ==
    LET count == IF count0 < 0 THEN 0 ELSE count0
        seed  == Coalesce(seedOpt, Num(st.fresh))
        base  == [EmptyCo EXCEPT !.rng = Ref("rng", Len(st.rngs) + 1),
                                 !.cache = Ref("cache", st.ncache + 1),
                                 !.locale = Str("en-US"),
                                 !.seed = seed]
    IN  ManyLoop(sid, count, 0, base, <<>>,
                 [st EXCEPT !.rngs = Append(@, PCGNew(seed[2])),
                            !.log = Append(@, <<"new PCG", Len(st.rngs) + 1>>),
                            !.ncache = @ + 1])

(***************************************************************************)
(* Construction.  Every factory and combinator ends in the SchemaImpl      *)
(* constructor, which stores the generator and a JSON deep copy of the     *)
(* options it is given as a new object.                                    *)
(***************************************************************************)
Heap == [schemas |-> schemas, bags |-> bags]

NewRun(fresh) == RunOn(Heap, now, fresh)

\* new SchemaImpl(generator, initialOptions), then constraints assigned
Construct(heap, generator, initialOptions, constraints) ==
    [schemas |-> Append(heap.schemas,
                        [generatorFn |-> generator,
                         constraints |-> constraints,
                         currentOptions |-> Len(heap.bags) + 1]),
     bags |-> Append(heap.bags, JsonClone(initialOptions)),
     error |-> "no"]

\* throw new Error(..) in a factory: no object is made
Thrown(heap, by) == [schemas |-> heap.schemas, bags |-> heap.bags, error |-> by]

\* an options argument: an object the caller holds, or {} when omitted
Options(o) == IF o = 0 THEN EmptyBag ELSE bags[o]

Set1(key, v) == [EmptyBag EXCEPT ![key] = v]

\* Math.max(0, Math.min(1, probability)) of a ratio <<num, den>>
Clamp(p) == IF p[1] < 0 THEN <<0, 1>> ELSE IF p[1] > p[2] THEN <<1, 1>> ELSE p

OptionalOp(s, probability) ==
    LET self == schemas[s]
        p    == Clamp(probability)
        opts == Spread(bags[self.currentOptions],
                       [EmptyBag EXCEPT !["_isOptional"] = Bool(TRUE),
                                        !["probability"] = <<"ratio", p>>])
    IN  Construct(Heap, [k |-> "optional", p |-> p, inner |-> self.generatorFn], opts, <<>>)

TransformOp(s, fn) ==
    LET self == schemas[s]
        opts == Spread(bags[self.currentOptions], Set1("_transformed", Bool(TRUE)))
    IN  Construct(Heap, [k |-> "transform", fn |-> fn, inner |-> self.generatorFn], opts, <<>>)

PipeOp(s, tf) ==
    LET self == schemas[s]
        opts == Spread(bags[self.currentOptions], Set1("_piped", Bool(TRUE)))
    IN  Construct(Heap, [k |-> "pipe", tf |-> tf, inner |-> self.generatorFn], opts, <<>>)

Max(a, b) == IF a > b THEN a ELSE b

\* where(predicate, retries = 10): retries: Math.max(1, retries).  The field
\* asked is history: the retries argument as the caller gave it, which the engine
\* never reads
WhereOp(s, predicate, retries) ==
    LET self == schemas[s]
        r    == IF Has(retries) THEN retries[2] ELSE 10
    IN  Construct(Heap, self.generatorFn, bags[self.currentOptions],
                  Append(self.constraints,
                         [predicate |-> predicate, retries |-> Max(1, r), asked |-> r]))

CloneWithOptions(s, newOptions) ==
    LET self == schemas[s]
    IN  Construct(Heap, self.generatorFn, Spread(bags[self.currentOptions], newOptions),
                  self.constraints)

LiteralOp(value) == Construct(Heap, [k |-> "literal", value |-> value], EmptyBag, <<>>)
\* enumValue(values): if (!values || values.length === 0) throw
EnumValueOp(values) ==
    IF ~Truthy(values) \/ Len(values[2]) = 0 THEN Thrown(Heap, "enumValue")
    ELSE Construct(Heap, [k |-> "enum", values |-> values[2]], EmptyBag, <<>>)
UuidOp == Construct(Heap, [k |-> "uuid"], EmptyBag, <<>>)
StringOp(options) == Construct(Heap, [k |-> "string"], options, <<>>)
DateOp(o) == Construct(Heap, [k |-> "date"], Options(o), <<>>)
ObjectOp(shape) == Construct(Heap, [k |-> "object", shape |-> shape], EmptyBag, <<>>)
ArrayOp(elementSchema, o) ==
    Construct(Heap, [k |-> "array", elementSchema |-> elementSchema], Options(o), <<>>)
\* union(...schemas): if (!schemas || schemas.length === 0) throw
UnionOp(ss) ==
    IF Len(ss) = 0 THEN Thrown(Heap, "union")
    ELSE Construct(Heap, [k |-> "union", schemas |-> ss], EmptyBag, <<>>)
LocaleOp(localeCode, s) ==
    Construct(Heap, [k |-> "locale", localeCode |-> localeCode, schema |-> s],
              bags[schemas[s].currentOptions], <<>>)
\* dependent(schema, options): options is the object o the caller passed, 0
\* when there is none; if (!options || typeof options.condition !== 'function')
\* throw
DependentOp(heap, s, o) ==
    IF o = 0 \/ heap.bags[o]["condition"][1] # "fn" THEN Thrown(heap, "dependent")
    ELSE Construct(heap, [k |-> "dependent", schema |-> s, options |-> o], EmptyBag, <<>>)

\* custom that wraps whatever it is given
CustomOpUnchecked(generatorFn) ==
    Construct(Heap, [k |-> "custom", fn |-> generatorFn], EmptyBag, <<>>)

\* custom(generatorFn): if (typeof generatorFn !== 'function') throw
CustomOp(generatorFn) ==
    IF generatorFn[1] # "fn" THEN Thrown(Heap, "custom")
    ELSE Construct(Heap, [k |-> "custom", fn |-> generatorFn], EmptyBag, <<>>)

\* reference({collection, idField}): if (!options ||
\* !Array.isArray(options.collection) || options.collection.length === 0) throw
ReferenceOp(options) ==
    IF ~Truthy(options) \/ options[2].collection[1] # "arr"
       \/ Len(options[2].collection[2]) = 0
    THEN Thrown(Heap, "reference")
    ELSE Construct(Heap, [k |-> "reference", collection |-> options[2].collection[2],
                          idField |-> options[2].idField], EmptyBag, <<>>)


(***************************************************************************)
(* The calls a client makes.  A client first builds schemas, then calls    *)
(* generate or generateMany on the schema it built last (the earlier ones  *)
(* are reached as its parts), and may repeat that call later.              *)
(***************************************************************************)
MaxSchemas == 3
MaxUserBags == 1
MaxTicks == 1
MaxCalls == 2
MaxDraws == 2

StartTime == 56 * Year

Seeds == {1, 4}
SeedArgs == {Num(k) : k \in Seeds} \cup {NoVal}
\* Math.floor(Math.random() * 10000), read only when no seed is given
RandomParts(seed) == IF Has(seed) THEN {0} ELSE {0, 7}
Probabilities == {<<0, 1>>, <<3, 10>>, <<1, 1>>}
WhereArgs == {<<"never", NoVal>>, <<"never", Num(0)>>, <<"never", Num(3)>>,
              <<"ge2", Num(3)>>, <<"le2", Num(0)>>}
Functions == {"wrap", "withPath"}
Pipelines == {<<>>, <<"wrap", "withPath">>}
Counts == {-1, 2}
Conditions == {"aGe2", "deep"}
EnumArgs == {Arr(<<Num(1), Num(2), Num(3)>>), Arr(<<>>), Undefined}
ReferenceArgs ==
    {<<"obj", [collection |-> Arr(<<Obj(<<<<"id", Num(1)>>>>), Obj(<<<<"id", Num(2)>>>>)>>),
               idField |-> Str("id")]>>,
     <<"obj", [collection |-> Arr(<<Obj(<<<<"id", Num(1)>>>>), Null>>),
               idField |-> Undefined]>>,
     <<"obj", [collection |-> Arr(<<>>), idField |-> Undefined]>>,
     <<"obj", [collection |-> Undefined, idField |-> Undefined]>>,
     Undefined}
\* what a caller writes into an options object it holds
Writes == {<<"length", Num(1)>>, <<"length", Num(3)>>,
           <<"condition", Fn("aGe2")>>, <<"condition", Fn("deep")>>}

Idle == [op |-> "none", sid |-> 0, seed |-> NoVal, count |-> 0, value |-> NoVal,
         attempts |-> 0, satisfied |-> TRUE, log |-> <<>>, rngs |-> <<>>,
         ncache |-> 0, at |-> 0, prev |-> NoVal, calls |-> 0, raised |-> "no"]

Init ==
    /\ schemas = <<>>
    /\ bags = <<>>
    /\ userBags = {}
    /\ now = StartTime
    /\ last = Idle

Ids == 1 .. Len(schemas)

\* a factory or combinator call: the new SchemaImpl and its option object, or
\* the error the factory threw, which ends the client
Built(heap) ==
    /\ last.op = "none"
    /\ Len(schemas) < MaxSchemas
    /\ schemas' = heap.schemas
    /\ bags' = heap.bags
    /\ last' = IF heap.error = "no" THEN last
               ELSE [Idle EXCEPT !.op = "threw", !.raised = heap.error]
    /\ UNCHANGED <<userBags, now>>

Literal == \E v \in {Num(7)} : Built(LiteralOp(v))

EnumValue == \E values \in EnumArgs : Built(EnumValueOp(values))

Date == \E o \in {0} \cup userBags : Built(DateOp(o))

Object ==
    \E a \in Ids : \E b \in Ids \cup {0} :
        Built(ObjectOp(IF b = 0 THEN <<<<"a", a>>>> ELSE <<<<"a", a>>, <<"b", b>>>>))

\* object({ b: .., 1: .. })
ObjectIndexed ==
    \E a \in Ids : \E b \in Ids : Built(ObjectOp(<<<<"b", a>>, <<"1", b>>>>))

Array == \E s \in Ids : \E o \in {0} \cup userBags : Built(ArrayOp(s, o))

Union ==
    \E ss \in {<<>>} \cup {<<a, b>> : a, b \in Ids} :
        (IF Len(ss) = 0 THEN TRUE ELSE ss[1] <= ss[2]) /\ Built(UnionOp(ss))

Custom == \E generatorFn \in {Fn("path"), Undefined, Str("x")} : Built(CustomOp(generatorFn))

Reference == \E options \in ReferenceArgs : Built(ReferenceOp(options))

Locale == \E s \in Ids : Built(LocaleOp("fr-FR", s))

\* dependent(schema, options): options is an object literal { condition: c }
\* (o = 0), an object the caller holds, or left out (o = -1)
Dependent ==
    \E s \in Ids :
    \E o \in {-1, 0} \cup userBags :
    \E c \in IF o = 0 THEN Conditions ELSE {"held"} :
        IF o = 0
        THEN Built(DependentOp([schemas |-> schemas,
                                bags |-> Append(bags, Set1("condition", Fn(c)))],
                               s, Len(bags) + 1))
        ELSE Built(DependentOp(Heap, s, IF o = -1 THEN 0 ELSE o))

Optional == \E s \in Ids : \E p \in Probabilities : Built(OptionalOp(s, p))

Transform == \E s \in Ids : \E fn \in Functions : Built(TransformOp(s, fn))

Where == \E s \in Ids : \E w \in WhereArgs : Built(WhereOp(s, w[1], w[2]))

Pipe == \E s \in Ids : \E tf \in Pipelines : Built(PipeOp(s, tf))

\* where, transform and pipe, given a callback that throws when it is called
WhereThrowing == \E s \in Ids : Built(WhereOp(s, "boom", NoVal))

TransformThrowing == \E s \in Ids : Built(TransformOp(s, "boom"))

PipeThrowing == \E s \in Ids : Built(PipeOp(s, <<"wrap", "boom">>))

\* length(l)
Length == \E s \in Ids : Built(CloneWithOptions(s, Set1("length", Num(2))))

\* maxLength(2 ** 33): a number above 2^31 is kept as <<hi, lo>>
MaxLength ==
    \E s \in Ids : Built(CloneWithOptions(s, Set1("maxLength", <<"wide", <<131072, 0>>>>)))

\* unique(u = true)
Unique == \E s \in Ids : Built(CloneWithOptions(s, Set1("unique", Bool(TRUE))))

\* the caller makes an options object to hand to a factory
NewOptions ==
    /\ last.op = "none"
    /\ Cardinality(userBags) < MaxUserBags
    /\ \E w \in {<<"length", Num(1)>>, <<"condition", Fn("aGe2")>>} :
          bags' = Append(bags, Set1(w[1], w[2]))
    /\ userBags' = userBags \cup {Len(bags) + 1}
    /\ UNCHANGED <<schemas, now, last>>

\* the caller writes to a property of an options object it holds
MutateOptions ==
    /\ last.op = "none"
    /\ \E o \in userBags : \E w \in Writes :
          /\ Has(bags[o][w[1]])
          /\ bags[o][w[1]] # w[2]
          /\ bags' = [bags EXCEPT ![o][w[1]] = w[2]]
    /\ UNCHANGED <<schemas, userBags, now, last>>

\* one top-level call and what it did
Called(op, sid, seed, count, random, prev, calls) ==
    LET Done(r, attempts, satisfied) ==
            [op |-> op, sid |-> sid, seed |-> seed, count |-> count,
             value |-> r.v, attempts |-> attempts, satisfied |-> satisfied,
             log |-> r.st.log, rngs |-> r.st.rngs, ncache |-> r.st.ncache,
             at |-> now, prev |-> prev, calls |-> calls, raised |-> r.st.ended]
        One(r) == Done(r, r.attempts, r.satisfied)
    IN  IF op = "generate"
        THEN One(GenerateS(sid, [EmptyCo EXCEPT !.seed = seed], NewRun(now + random)))
        ELSE Done(GenerateManyS(sid, count, seed, NewRun(now + random)), 0, TRUE)

Generate ==
    /\ last.op = "none"
    /\ schemas # <<>>
    /\ \E seed \in SeedArgs : \E random \in RandomParts(seed) :
          last' = Called("generate", Len(schemas), seed, 0, random, NoVal, 1)
    /\ UNCHANGED <<schemas, bags, userBags, now>>

GenerateMany ==
    /\ last.op = "none"
    /\ schemas # <<>>
    /\ \E count \in Counts : \E seed \in SeedArgs : \E random \in RandomParts(seed) :
          last' = Called("generateMany", Len(schemas), seed, count, random, NoVal, 1)
    /\ UNCHANGED <<schemas, bags, userBags, now>>

\* the client makes its last call again, with the same arguments
Again ==
    /\ last.op # "none"
    /\ last.calls < MaxCalls
    /\ \E random \in RandomParts(last.seed) :
          last' = Called(last.op, last.sid, last.seed, last.count, random,
                         last.value, last.calls + 1)
    /\ UNCHANGED <<schemas, bags, userBags, now>>

\* time passes
Tick ==
    /\ now < StartTime + MaxTicks
    /\ now' = now + 1
    /\ UNCHANGED <<schemas, bags, userBags, last>>

\* the fluent combinators of SchemaImpl over the leaf schemas
Next ==
    \/ Literal \/ EnumValue
    \/ Optional \/ Transform \/ Where \/ Pipe
    \/ Generate

Spec == Init /\ [][Next]_vars

\* the composite generators, which call generate on their parts
TreeNext ==
    \/ EnumValue
    \/ Object \/ Array \/ Union \/ Locale \/ Dependent \/ Where
    \/ Generate \/ GenerateMany

TreeSpec == Init /\ [][TreeNext]_vars

\* calls made again at a later time
ClockNext ==
    \/ EnumValue \/ Date \/ Object \/ Array
    \/ Generate \/ GenerateMany \/ Again \/ Tick

ClockSpec == Init /\ [][ClockNext]_vars

\* the option objects: what a caller holds, and what the schemas hold
FrameNext ==
    \/ EnumValue \/ Object \/ Array \/ Dependent
    \/ Optional \/ Transform \/ Where \/ Pipe \/ Length \/ Unique
    \/ NewOptions \/ MutateOptions

FrameSpec == Init /\ [][FrameNext]_vars

\* callbacks that throw while a tree is generated
ErrNext ==
    \/ EnumValue \/ Object \/ Dependent
    \/ WhereThrowing \/ TransformThrowing \/ PipeThrowing
    \/ Generate

ErrSpec == Init /\ [][ErrNext]_vars

\* a client of the PCG class alone: the bounds given to nextInt
IntArgs ==
    {<<WOf(3), WOf(3)>>, <<WOf(5), WOf(-2)>>, <<WOf(-3), WOf(3)>>,
     <<WOf(0), WOf(1048576)>>, <<WOf(7), WOf(1610612742)>>,
     <<WOf(1), <<32768, 1>>>>, <<WOf(0), <<65535, 65535>>>>,
     <<WOf(-1), <<65536, 0>>>>}

PcgOps == {"new PCG", "next", "nextInt"}

\* new PCG(seed)
NewPCG ==
    /\ last.op = "none"
    /\ \E seed \in Seeds \cup {0, -4, 2, 3, 7} :
          last' = [Idle EXCEPT !.op = "new PCG", !.seed = Num(seed),
                               !.rngs = <<PCGNew(seed)>>, !.prev = PCGNew(seed)]
    /\ UNCHANGED <<schemas, bags, userBags, now>>

\* what a call on the PCG object left: the draws are the log of the call, prev
\* is the state before it, seed the arguments
Drew(op, args, r) ==
    [Idle EXCEPT !.op = op, !.seed = args, !.value = r.n, !.log = r.st.log,
                 !.rngs = r.st.rngs, !.prev = last.rngs[1],
                 !.calls = last.calls + 1, !.raised = r.st.ended]

OnPcg == [RunOn(Heap, now, 0) EXCEPT !.rngs = last.rngs]

\* rng.next()
PcgNext ==
    /\ last.op \in PcgOps /\ last.raised = "no" /\ last.calls < MaxDraws
    /\ LET Floated(d) == [n |-> d.x, st |-> d.st]
       IN  last' = Drew("next", NoVal, Floated(NextFloat(OnPcg, 1)))
    /\ UNCHANGED <<schemas, bags, userBags, now>>

\* rng.nextInt(min, max)
PcgNextInt ==
    /\ last.op \in PcgOps /\ last.raised = "no" /\ last.calls < MaxDraws
    /\ \E args \in IntArgs :
          last' = Drew("nextInt", args, NextIntWide(OnPcg, 1, args[1], args[2]))
    /\ UNCHANGED <<schemas, bags, userBags, now>>

PcgNext3 == NewPCG \/ PcgNext \/ PcgNextInt

PcgSpec == Init /\ [][PcgNext3]_vars

\* CARD_TYPES: the prefixes, as digits, and the lengths of each card type, in
\* the order of Object.keys
CardTypeNames == <<"visa", "mastercard", "amex", "discover">>
CARD_TYPES ==
    [visa       |-> [prefixes |-> <<<<4>>>>, lengths |-> <<16>>],
     mastercard |-> [prefixes |-> <<<<5, 1>>, <<5, 2>>, <<5, 3>>, <<5, 4>>, <<5, 5>>,
                                    <<2, 2, 2, 1>>, <<2, 2, 2, 2>>, <<2, 2, 2, 3>>,
                                    <<2, 2, 2, 4>>, <<2, 2, 2, 5>>, <<2, 2, 2, 6>>,
                                    <<2, 2, 2, 7>>, <<2, 2, 2, 8>>, <<2, 2, 2, 9>>,
                                    <<2, 2, 3>>, <<2, 2, 4>>, <<2, 2, 5>>, <<2, 2, 6>>,
                                    <<2, 2, 7>>, <<2, 2, 8>>, <<2, 2, 9>>,
                                    <<2, 3>>, <<2, 4>>, <<2, 5>>, <<2, 6>>,
                                    <<2, 7, 0>>, <<2, 7, 1>>, <<2, 7, 2, 0>>>>,
                     lengths |-> <<16>>],
     amex       |-> [prefixes |-> <<<<3, 4>>, <<3, 7>>>>, lengths |-> <<15>>],
     discover   |-> [prefixes |-> <<<<6, 0, 1, 1>>, <<6, 4, 4>>, <<6, 4, 5>>, <<6, 4, 6>>,
                                    <<6, 4, 7>>, <<6, 4, 8>>, <<6, 4, 9>>, <<6, 5>>>>,
                     lengths |-> <<16>>]]

\* a check digit computed with the doubling started at the second digit
RECURSIVE CheckSumFromSecond(_, _, _, _)
CheckSumFromSecond(digits, i, sum, shouldDouble) ==
    IF i > Len(digits) THEN sum
    ELSE LET doubled == IF 2 * digits[i] > 9 THEN 2 * digits[i] - 9 ELSE 2 * digits[i]
         IN  CheckSumFromSecond(digits, i + 1,
                                sum + (IF shouldDouble THEN doubled ELSE digits[i]),
                                ~shouldDouble)
GenerateCheckDigitFromSecond(partialCardNumber) ==
    LET remainder == CheckSumFromSecond(partialCardNumber, 1, 0, FALSE) % 10
    IN  IF remainder = 0 THEN 0 ELSE 10 - remainder

\* generateCheckDigit: the loop over the digits from the leftmost, which is
\* doubled, then every second one
RECURSIVE CheckSum(_, _, _, _)
CheckSum(digits, i, sum, shouldDouble) ==
    IF i > Len(digits) THEN sum
    ELSE LET doubled == IF 2 * digits[i] > 9 THEN 2 * digits[i] - 9 ELSE 2 * digits[i]
         IN  CheckSum(digits, i + 1,
                      sum + (IF shouldDouble THEN doubled ELSE digits[i]),
                      ~shouldDouble)
GenerateCheckDigit(partialCardNumber) ==
    LET remainder == CheckSum(partialCardNumber, 1, 0, TRUE) % 10
    IN  IF remainder = 0 THEN 0 ELSE 10 - remainder

\* generateCardNumber(prefix, length, rng): the prefix, length - prefix.length
\* - 1 digits rng.nextInt(0, 9), and the check digit of these
RECURSIVE CardDigits(_, _, _, _)
CardDigits(cardNumber, digitsToAdd, st, id) ==
    IF digitsToAdd <= 0 THEN [n |-> cardNumber, st |-> st]
    ELSE LET Added(d) == CardDigits(Append(cardNumber, d.n), digitsToAdd - 1, d.st, id)
         IN  Added(NextInt(st, id, 0, 9))
GenerateCardNumber(prefix, length, st, id) ==
    LET Checked(r) == [n |-> Append(r.n, GenerateCheckDigit(r.n)), st |-> r.st]
    IN  Checked(CardDigits(prefix, length - Len(prefix) - 1, st, id))

\* the creditCard generator up to the card number: the card type, drawn when
\* it is 'random', a drawn prefix and a drawn length of the type
CardNumberOf(type, st, id) ==
    LET Typed(t) ==
            LET cardInfo == CARD_TYPES[CardTypeNames[t.n + 1]]
                Prefixed(p) ==
                    LET Sized(l) ==
                            GenerateCardNumber(cardInfo.prefixes[p.n + 1],
                                               cardInfo.lengths[l.n + 1], l.st, id)
                    IN  Sized(NextInt(p.st, id, 0, Len(cardInfo.lengths) - 1))
            IN  Prefixed(NextInt(t.st, id, 0, Len(cardInfo.prefixes) - 1))
    IN  IF type = "random" THEN Typed(NextInt(st, id, 0, Len(CardTypeNames) - 1))
        ELSE Typed([n |-> (CHOOSE i \in DOMAIN CardTypeNames : CardTypeNames[i] = type) - 1,
                    st |-> st])

\* creditCard({ type }) generates a card number on the PCG object
CardNumber ==
    /\ last.op \in {"new PCG", "next", "card"} /\ last.calls < MaxDraws
    /\ \E type \in {"visa", "mastercard", "amex", "discover", "random"} :
          last' = [Drew("card", Str(type), CardNumberOf(type, OnPcg, 1)) EXCEPT !.sid = 0]
    /\ UNCHANGED <<schemas, bags, userBags, now>>

CardNext == NewPCG \/ PcgNext \/ CardNumber

CardSpec == Init /\ [][CardNext]_vars

\* a second new PCG(seed) beside the first; seed becomes the two seeds
SecondPCG ==
    /\ last.op = "new PCG"
    /\ \E seed \in Seeds \cup {0, -4, 2, 3, 7} :
          last' = [last EXCEPT !.op = "second PCG",
                               !.seed = <<"seeds", last.seed[2], seed>>,
                               !.rngs = Append(@, PCGNew(seed))]
    /\ UNCHANGED <<schemas, bags, userBags, now>>

\* rng.next() on each of the two objects, up to MaxDraws times; value is the
\* two outputs
BothNext ==
    /\ last.op \in {"second PCG", "both next"} /\ last.calls < MaxDraws
    /\ LET Second(a) ==
               LET Paired(b) ==
                       [last EXCEPT !.op = "both next", !.value = <<a.x, b.x>>,
                                    !.rngs = b.st.rngs, !.log = b.st.log,
                                    !.calls = @ + 1]
               IN  Paired(NextUint32(a.st, 2))
       IN  last' = Second(NextUint32(OnPcg, 1))
    /\ UNCHANGED <<schemas, bags, userBags, now>>

SeedNext == NewPCG \/ SecondPCG \/ BothNext

SeedSpec == Init /\ [][SeedNext]_vars

\* the arguments given to generateDistributedValue, in thousandths
Ranges == {<<NoVal, NoVal>>, <<Num(2000), Num(6000)>>, <<Num(3000), Num(3000)>>,
           <<Num(5000), Num(1000)>>}
Means == {NoVal, Num(50000), Num(-50000)}
Deviations == {NoVal, Num(0), Num(-1000), Num(100000), NaN}
Lambdas == {NoVal, Num(0), Num(1), Num(5000), NaN}
\* z lies within sqrt(-2 log 2^-32) of 0, and -log u between 2^-32 and log 2^32
Factors(distribution) ==
    CASE distribution = "normal"      -> {-6661, 0, 6661}
      [] distribution = "exponential" -> {1, 22181}
      [] OTHER -> {0}

DistributionOptions(distribution) ==
    CASE distribution = "normal" ->
             {[min |-> r[1], max |-> r[2], mean |-> m, standardDeviation |-> d,
               lambda |-> NoVal] : r \in Ranges, m \in Means, d \in Deviations}
      [] distribution = "exponential" ->
             {[min |-> r[1], max |-> r[2], mean |-> NoVal, standardDeviation |-> NoVal,
               lambda |-> l] : r \in Ranges, l \in Lambdas}
      [] OTHER ->
             {[min |-> r[1], max |-> r[2], mean |-> NoVal, standardDeviation |-> NoVal,
               lambda |-> NoVal] : r \in Ranges}

\* generateDistributedValue(rng, distribution, options) on a new PCG
Sample ==
    /\ last.op = "new PCG"
    /\ \E distribution \in {"uniform", "normal", "exponential"} :
       \E options \in DistributionOptions(distribution) :
       \E t \in Factors(distribution) :
          last' = [Drew("sample", options,
                        GenerateDistributedValue(OnPcg, 1, distribution, options, t))
                     EXCEPT !.sid = distribution]
    /\ UNCHANGED <<schemas, bags, userBags, now>>

DistNext == NewPCG \/ Sample

DistSpec == Init /\ [][DistNext]_vars

\* the options number() is called with, in thousandths: bounds with min <=
\* max that are integers and that are not, every combination of integer and
\* precision, the positive and negative flags, every distribution
NumberArgs ==
    {[min |-> Num(r[1]), max |-> Num(r[2]), integer |-> i, precision |-> pr,
      positive |-> f[1], negative |-> f[2], distribution |-> d,
      mean |-> NoVal, standardDeviation |-> NoVal, lambda |-> NoVal] :
        r \in {<<1000, 3000>>, <<1200, 3000>>, <<1200, 1400>>, <<-2500, -1200>>,
               <<2000, 2000>>},
        i \in {NoVal, Bool(TRUE)},
        pr \in {NoVal, Num(0), Num(1)},
        f \in {<<NoVal, NoVal>>, <<Bool(TRUE), NoVal>>, <<NoVal, Bool(TRUE)>>,
               <<Bool(TRUE), Bool(TRUE)>>},
        d \in {NoVal, Str("normal"), Str("exponential")}}

\* number(options) generates on a new PCG; t is what the distribution makes of
\* its draws
Number ==
    /\ last.op = "new PCG"
    /\ \E opts \in NumberArgs :
       \E t \in Factors(Coalesce(opts.distribution, Str("uniform"))[2]) :
          last' = Drew("number", opts, NumberGen(OnPcg, 1, opts, t))
    /\ UNCHANGED <<schemas, bags, userBags, now>>

NumberNext == NewPCG \/ Number

NumberSpec == Init /\ [][NumberNext]_vars

\* the options string() is called with
StringArgs ==
    {EmptyBag,
     [EmptyBag EXCEPT !["length"] = Num(5), !["chars"] = Text(<<"a">>)],
     [EmptyBag EXCEPT !["length"] = Num(2), !["chars"] = Text(<<"a", "b">>),
                      !["prefix"] = Text(<<"x", "-">>), !["suffix"] = Text(<<"z">>)],
     [EmptyBag EXCEPT !["length"] = Num(1), !["chars"] = Text(<<"a">>),
                      !["exclude"] = Text(<<"a", "c">>)]}

String == \E options \in StringArgs : Built(StringOp(options))

Casing1 ==
    \E s \in Ids : \E c \in {"upper", "title"} :
        Built(CloneWithOptions(s, Set1("casing", Str(c))))

Exclude ==
    \E s \in Ids : \E e \in {Text(<<"b">>), RegExp({"a"}),
                               Arr(<<Text(<<"b">>), RegExp({"a"})>>)} :
        Built(CloneWithOptions(s, Set1("exclude", e)))

Pattern == \E s \in Ids : Built(CloneWithOptions(s, Set1("pattern", RegExp({"a"}))))

\* strings and their option setters
StringNext ==
    \/ String \/ Length \/ Casing1 \/ Exclude \/ Pattern
    \/ Generate

StringSpec == Init /\ [][StringNext]_vars

Uuid == Built(UuidOp)

\* uuids, alone and as the elements of arrays
UuidNext ==
    \/ Uuid \/ Array \/ Length
    \/ Generate \/ GenerateMany

UuidSpec == Init /\ [][UuidNext]_vars

\* sort(s): cloneWithOptions({ sort: s ?? true })
Sort ==
    \E s \in Ids : \E c \in {Bool(TRUE), Fn("desc")} :
        Built(CloneWithOptions(s, Set1("sort", c)))

\* option values of every kind, set on strings and arrays
OptionNext ==
    \/ String \/ EnumValue \/ Array
    \/ Length \/ Exclude \/ Sort
    \/ Generate

OptionSpec == Init /\ [][OptionNext]_vars

\* arrays and constraints whose loops run to their caps
CapNext ==
    \/ EnumValue
    \/ Array \/ Length \/ MaxLength \/ Unique
    \/ Where
    \/ Generate

CapSpec == Init /\ [][CapNext]_vars

\* objects whose shape has string keys and array-index keys
ShapeNext ==
    \/ Literal \/ EnumValue \/ Dependent
    \/ Object \/ ObjectIndexed
    \/ Generate

ShapeSpec == Init /\ [][ShapeNext]_vars

\* factories called with well-formed and with malformed arguments
MisuseNext ==
    \/ EnumValue \/ Union \/ Custom \/ Reference \/ Dependent \/ Object
    \/ NewOptions
    \/ Generate

MisuseSpec == Init /\ [][MisuseNext]_vars

(***************************************************************************)
(* What a call did, read from its log.                                     *)
(***************************************************************************)
TopSchema == schemas[last.sid]
TopGen == TopSchema.generatorFn
Entries == DOMAIN last.log
IsAttempt(i) == last.log[i][1] = "attempt" /\ last.log[i][2] = 1
IsPred(i) == last.log[i][1] = "pred" /\ last.log[i][2] = 1
IsDraw(i) == last.log[i][1] = "draw"

\* the invocations of the schema's generator function by the call itself: the
\* entry that follows the start of each attempt
Invocations ==
    {i \in Entries : i > 1 /\ last.log[i][1] = "fn" /\ IsAttempt(i - 1)}

\* the retries argument given to the first where call of the chain
GoverningRetries == TopSchema.constraints[1].asked

\* the value the last attempt produced: the one its predicates were called on
LastProduced ==
    LET preds == {i \in Entries : IsPred(i)}
    IN  last.log[CHOOSE i \in preds : \A j \in preds : j <= i][4]

\* C4: when no attempt satisfies the constraints, generate returns, without
\* raising, after exactly 1 + r invocations of the generator function, r being
\* the retries argument of the governing where call, and it returns the value
\* of the last invocation
C4_ExhaustedAfterOnePlusRetries ==
    (last.op = "generate" /\ ~last.satisfied) =>
        /\ Cardinality(Invocations) = 1 + GoverningRetries
        /\ last.value = LastProduced

\* C5: one generate call never invokes the generator more than 1 + r1 times,
\* r1 being the retries argument of the first where call of the chain (10 when
\* omitted), whatever the later where calls were given
C5_BudgetIsFirstRetriesPlusOne ==
    (last.op = "generate" /\ TopSchema.constraints # <<>>) =>
        Cardinality(Invocations) <= 1 + GoverningRetries

\* C6: each attempt runs the generator once and then calls the predicates in
\* the order they were attached, on the value of that attempt, up to and
\* including the first that fails; a value returned before the budget is used
\* up satisfies every predicate; without constraints the generator runs once
C6_PredicatesInOrderUntilFirstFailure ==
    last.op = "generate" =>
        /\ Cardinality(Invocations) = Cardinality({i \in Entries : IsAttempt(i)})
        /\ \A i \in Entries : IsPred(i) =>
              LET n == last.log[i][3]
              IN  /\ n \in 1 .. Len(TopSchema.constraints)
                  /\ last.log[i][5] = PredEval(TopSchema.constraints[n].predicate,
                                               last.log[i][4])
                  /\ IF n = 1 THEN ~IsPred(i - 1)
                     ELSE /\ IsPred(i - 1)
                          /\ last.log[i - 1][3] = n - 1
                          /\ last.log[i - 1][4] = last.log[i][4]
                          /\ last.log[i - 1][5]
                  /\ (~last.log[i][5] /\ i < Len(last.log)) => ~IsPred(i + 1)
                  /\ (last.log[i][5] /\ n < Len(TopSchema.constraints)) =>
                        (i < Len(last.log) /\ IsPred(i + 1))
        /\ last.attempts < MaxTotalAttempts(TopSchema.constraints) =>
              \A n \in DOMAIN TopSchema.constraints :
                  PredEval(TopSchema.constraints[n].predicate, last.value)
        /\ TopSchema.constraints = <<>> => Cardinality(Invocations) = 1

\* a second predicate was called after the first passed, and failed; a later
\* attempt satisfied both
C6_Witness ==
    /\ last.op = "generate"
    /\ last.satisfied
    /\ last.attempts > 1
    /\ Len(TopSchema.constraints) = 2
    /\ \E i \in Entries : IsPred(i) /\ last.log[i][3] = 2 /\ ~last.log[i][5]

\* the state the first draw of the call was made from
FirstDrawn == last.log[CHOOSE i \in Entries : IsDraw(i) /\ \A j \in Entries : IsDraw(j) => i <= j][3]

\* C7: optional(p) returns null with probability p: optional(0) never returns
\* null, optional(1) always does, and optional(0.3) returns null on the draws
\* below 0.3 and on no other (the wrapped schema itself never yields null)
C7_NullWithProbabilityP ==
    (/\ last.op = "generate"
     /\ TopGen.k = "optional"
     /\ TopGen.inner.k \in {"literal", "enum"}
     /\ TopSchema.constraints = <<>>) =>
        /\ TopGen.p = <<0, 1>> => last.value # Null
        /\ TopGen.p = <<1, 1>> => last.value = Null
        /\ TopGen.p = <<3, 10>> =>
              (last.value = Null <=> FloatLess(Output32(FirstDrawn), 3, 10))

\* C8: every invocation of the generator of optional(p) draws one float before
\* anything else; when the draw decides for null the wrapped generator is not
\* invoked and nothing more is drawn, otherwise the wrapped generator runs next
C8_OptionalDrawsOnceFirst ==
    (last.op = "generate" /\ TopGen.k = "optional") =>
        \A i \in Entries : IsAttempt(i) =>
            /\ i + 2 <= Len(last.log)
            /\ last.log[i + 1] = <<"fn", "optional", 1>>
            /\ IsDraw(i + 2)
            /\ last.log[i + 2][2] = 1
            /\ IF FloatLess(Output32(last.log[i + 2][3]), TopGen.p[1], TopGen.p[2])
               THEN /\ i + 3 <= Len(last.log)
                    /\ last.log[i + 3] = <<"fn", TopGen.inner.k, 1>>
               ELSE IF i + 3 <= Len(last.log)
               THEN last.log[i + 3][1] \notin {"fn", "draw"}
               ELSE /\ last.value = Null
                    /\ last.rngs[1] = last.log[i + 2][4]

\* optional(0.3) on a seed whose first draw is not below 0.3: the call made
\* one draw and returned null
C8_Witness ==
    /\ last.op = "generate"
    /\ TopGen.k = "optional"
    /\ TopGen.p = <<3, 10>>
    /\ TopGen.inner.k = "enum"
    /\ last.value = Null
    /\ Cardinality({i \in Entries : IsDraw(i)}) = 1

\* f_n( .. f_1(v, ctx) .., ctx)
RECURSIVE Composed(_, _, _)
Composed(tf, v, ctx) ==
    IF tf = <<>> THEN v ELSE Composed(Tail(tf), ApplyFn(Head(tf), v, ctx), ctx)

\* C9: a schema made by transform(fn) or pipe(f1..fn) runs the wrapped
\* generator once per attempt and nothing else that draws: what the call did is
\* what the wrapped generator does alone in the same context and state, and the
\* value is fn, or f1 then f2 .. then fn, applied to the wrapped value; pipe()
\* returns the wrapped value
C9_WrapperRunsInnerOnceAndApplies ==
    (/\ last.op = "generate"
     /\ Has(last.seed)
     /\ TopGen.k \in {"transform", "pipe"}
     /\ TopSchema.constraints = <<>>) =>
        LET ctx == FullContext(TopSchema, [EmptyCo EXCEPT !.seed = last.seed],
                               last.seed, 1, Ref("cache", 1))
            st0 == [RunOn(Heap, last.at, 0) EXCEPT !.rngs = <<PCGNew(last.seed[2])>>,
                                                   !.ncache = 1, !.depth = 1]
            Alone(r) ==
                /\ last.log = <<<<"new PCG", 1>>,
                                <<"generate", last.sid, 1, ctx.rng, ctx.cache, ctx.seed,
                                  ctx.locale, ctx.options, ctx.key, ctx.parent,
                                  ctx.index, ctx.path>>,
                                <<"attempt", 1, 1>>,
                                <<"fn", TopGen.k, 1>>>> \o r.st.log
                /\ last.rngs = r.st.rngs
                /\ last.value = IF TopGen.k = "transform" THEN ApplyFn(TopGen.fn, r.v, ctx)
                                ELSE Composed(TopGen.tf, r.v, ctx)
                /\ (TopGen.k = "pipe" /\ TopGen.tf = <<>>) => last.value = r.v
        IN  Alone(Run(TopGen.inner, ctx, st0))

\* a transform over a generator that draws
C9_Witness ==
    /\ last.op = "generate"
    /\ Has(last.seed)
    /\ TopGen.k = "transform"
    /\ TopGen.fn = "wrap"
    /\ TopGen.inner.k = "enum"
    /\ last.value = Arr(<<Num(3)>>)

Draws == {i \in Entries : IsDraw(i)}

\* every draw was made from the state the draw before it left
DrawsChained ==
    \A j \in Draws :
        LET before == {i \in Draws : i < j}
        IN  before # {} =>
                last.log[j][3] = last.log[CHOOSE i \in before : \A h \in before : h <= i][4]

\* the PCG objects of the call other than the first are in the state their
\* constructor left them in
OthersUntouched(initial) == \A id \in 2 .. Len(last.rngs) : last.rngs[id] = initial

\* C1: two calls S.generate({seed: k}) return deeply equal values, whatever
\* the schema and whenever each call is made
C1_SameSeedSameValue ==
    (last.op = "generate" /\ Has(last.seed) /\ last.calls > 1) =>
        last.value = last.prev

\* C2: in one top-level generate or generateMany call every draw of every node
\* is made from the PCG object the root made; the objects made by the nested
\* generate calls are never drawn from, and the shared object is neither
\* replaced nor reseeded between nodes or attempts
C2_OneSharedRng ==
    last.op # "none" =>
        /\ \A i \in Draws : last.log[i][2] = 1
        /\ \A i \in Entries : last.log[i][1] = "generate" => last.log[i][4] = Ref("rng", 1)
        /\ DrawsChained
        /\ Draws # {} => last.rngs[1] = last.log[CHOOSE i \in Draws : \A h \in Draws : h <= i][4]
        /\ Has(last.seed) =>
              /\ OthersUntouched(PCGNew(last.seed[2]))
              /\ Draws # {} => FirstDrawn = PCGNew(last.seed[2])
              /\ Draws = {} => last.rngs[1] = PCGNew(last.seed[2])

\* a call whose nested generate calls made PCG objects of their own, with draws
\* by more than one node and more than one attempt
C2_Witness ==
    /\ last.op = "generate"
    /\ Has(last.seed)
    /\ Len(last.rngs) > 2
    /\ Cardinality(Draws) > 2
    /\ \E i \in Entries : last.log[i][1] = "attempt" /\ last.log[i][3] > 1

\* C3: generateMany(n, {seed: k}) uses one RNG and one cache for the whole
\* batch, each element starting from the RNG state the element before it left,
\* so that the result is the same for the same n and k
C3_OneStreamReproducible ==
    last.op = "generateMany" =>
        /\ last.ncache = 1
        /\ \A i \in Entries :
              (last.log[i][1] = "generate" /\ last.log[i][3] = 1) =>
                  (last.log[i][4] = Ref("rng", 1) /\ last.log[i][5] = Ref("cache", 1))
        /\ \A i \in Draws : last.log[i][2] = 1
        /\ DrawsChained
        /\ (Has(last.seed) /\ last.calls > 1) => last.value = last.prev

\* S.generate({seed: k}) on the objects of heap
GenValue(heap, sid, k) ==
    GenerateS(sid, [EmptyCo EXCEPT !.seed = Num(k)], RunOn(heap, StartTime, 0)).v

\* C10: no call of a factory or combinator, and no write to an options object
\* that was passed to a factory, changes a schema that exists: its constraints,
\* its option bag and the value of S.generate({seed: k}) stay the same
C10_ReceiverUnchanged ==
    [][\A sid \in Ids :
          /\ schemas'[sid].constraints = schemas[sid].constraints
          /\ bags'[schemas'[sid].currentOptions] = bags[schemas[sid].currentOptions]
          /\ \A k \in Seeds :
                GenValue([schemas |-> schemas', bags |-> bags'], sid, k)
                    = GenValue(Heap, sid, k)]_vars
\* C11: an exception thrown by a user-supplied callback during generation (a
\* where predicate, a transform or pipe function, a dependent condition) never
\* leaves generate: the call returns
C11_CallbackErrorsAbsorbed ==
    last.op = "generate" => last.raised = "no"

IsCall(i) == last.log[i][1] = "generate"

\* the generate call that made call i of the log: the nearest earlier one that
\* is one level up
Caller(i) ==
    CHOOSE j \in Entries :
        /\ j < i /\ IsCall(j) /\ last.log[j][3] = last.log[i][3] - 1
        /\ \A m \in Entries : (j < m /\ m < i /\ IsCall(m)) => last.log[m][3] >= last.log[i][3]

\* C13: every child a composite or wrapper invokes gets the parent's cache
\* instance and seed, and the parent's locale unless the parent is a locale
\* wrapper, which sets its own; its options are the child schema's own option
\* bag, never the parent's
C13_ChildContextInherits ==
    last.op \in {"generate", "generateMany"} =>
        \A i \in Entries :
            (IsCall(i) /\ last.log[i][3] > 1) =>
                LET child  == last.log[i]
                    parent == last.log[Caller(i)]
                    wrapper == schemas[parent[2]].generatorFn
                IN  /\ child[5] = parent[5]
                    /\ child[6] = parent[6]
                    /\ child[7] = IF wrapper.k = "locale" THEN Str(wrapper.localeCode)
                                  ELSE parent[7]
                    /\ child[8] = Ref("bag", schemas[child[2]].currentOptions)
                    /\ child[8] # parent[8]

\* a locale wrapper and another composite have each invoked a child
C13_Witness ==
    /\ last.op = "generate"
    /\ \E i, j \in Entries :
          /\ IsCall(i) /\ last.log[i][3] > 1 /\ last.log[i][7] = Str("fr-FR")
          /\ IsCall(j) /\ last.log[j][3] > 2
          /\ schemas[last.log[Caller(j)][2]].generatorFn.k \in {"object", "array", "union", "dependent"}

\* the generate calls the top generator function made itself, in order
Children == SelectSeq([i \in Entries |-> i], LAMBDA i : IsCall(i) /\ last.log[i][3] = 2)

\* the position at which the shape declares a key
DeclaredAt(shape, key) == CHOOSE i \in DOMAIN shape : shape[i][1] = key

\* C14: an object generates its fields in the order its shape declares them;
\* the parent a field's generator sees holds exactly the fields declared
\* before it that produced a value, and the root has no parent
C14_FieldsInDeclarationOrder ==
    (last.op = "generate" /\ last.raised = "no" /\ TopGen.k = "object") =>
        LET shape == TopGen.shape
        IN  /\ last.log[2][10] = NoVal
            /\ Len(Children) = Len(shape)
            /\ \A n \in DOMAIN Children :
                  LET child == last.log[Children[n]]
                  IN  /\ child[9] = Str(shape[n][1])
                      /\ child[10] = Obj(SelectSeq(last.value[2],
                                         LAMBDA f : DeclaredAt(shape, f[1]) < n))

(***************************************************************************)
(* The PCG class alone.                                                    *)
(***************************************************************************)
ArgLo == IF WLess(last.seed[2], last.seed[1]) THEN last.seed[2] ELSE last.seed[1]
ArgHi == IF WLess(last.seed[2], last.seed[1]) THEN last.seed[1] ELSE last.seed[2]

\* C15: a nextInt call that returns yields an integer between the smaller and
\* the larger bound, both included; equal bounds yield that bound; min > max
\* does not raise
C15_NextIntWithinBounds ==
    last.op = "nextInt" =>
        /\ last.raised # "throw"
        /\ last.raised = "no" =>
              /\ ~WLess(last.value, ArgLo)
              /\ ~WLess(ArgHi, last.value)
              /\ last.value[2] \in 0..65535
              /\ last.seed[1] = last.seed[2] => last.value = last.seed[1]

\* calls with min > max, with a negative min and with a range above 2^31 have
\* returned
C15_Witness ==
    /\ last.op = "nextInt" /\ last.raised = "no"
    /\ \/ WLess(last.seed[2], last.seed[1])
       \/ last.seed[2][1] >= 32768 /\ Len(last.log) > 1

\* C16: every nextInt call returns, whatever the width of the range
C16_NextIntReturns ==
    last.op = "nextInt" => last.raised = "no"

RECURSIVE StepN(_, _)
StepN(state, n) == IF n = 0 THEN state ELSE StepN(Step(state), n - 1)

RangeOfArgs == WAdd(WSub(ArgHi, ArgLo), <<0, 1>>)

\* C17: the state is eight bytes and the increment is odd; next and the modulo
\* path of nextInt draw once, the rejection path once per accepted or rejected
\* output, equal bounds not at all; each draw is computed from the state the
\* draws before it left and the call leaves the state that many steps on
C17_OneStepPerDraw ==
    (last.op \in PcgOps /\ last.raised = "no") =>
        /\ PcgInc[1] % 2 = 1
        /\ Len(last.rngs[1]) = 8 /\ \A k \in 1..8 : last.rngs[1][k] \in 0..255
        /\ \A i \in Entries :
              /\ last.log[i][1] = "draw"
              /\ last.log[i][3] = StepN(last.prev, i - 1)
              /\ last.log[i][4] = StepN(last.prev, i)
        /\ last.rngs[1] = StepN(last.prev, Len(last.log))
        /\ last.op = "next" => Len(last.log) = 1
        /\ last.op = "nextInt" =>
              /\ last.seed[1] = last.seed[2] => (Len(last.log) = 0 /\ last.rngs[1] = last.prev)
              /\ last.seed[1] # last.seed[2] => Len(last.log) >= 1
              /\ (last.seed[1] # last.seed[2] /\ ~WLess(<<16, 0>>, RangeOfArgs))
                    => Len(last.log) = 1

\* a call of the rejection path has rejected an output, and a call with equal
\* bounds has been made
C17_Witness ==
    /\ last.op = "nextInt" /\ last.raised = "no"
    /\ Len(last.log) > 1

\* the min and max a sample was asked for
SampleMin == Coalesce(last.seed.min, Num(0))
SampleMax == Coalesce(last.seed.max, Num(1000))

\* C18: for min < max a sample of any kind and with any explicit mean,
\* standardDeviation and lambda is a number between min and max; min == max
\* gives min; no sample raises
C18_SampleWithinMinMax ==
    last.op = "sample" =>
        /\ last.raised = "no"
        /\ SampleMin = SampleMax => last.value = SampleMin
        /\ Lt(SampleMin, SampleMax) =>
              /\ Le(SampleMin, last.value)
              /\ Le(last.value, SampleMax)

\* C19: every generate call returns: the constraint loop makes no more attempts
\* than 1 + the retries of its governing constraint, and an array generates no
\* more than 5 * length + 20 elements, length being at most the length or
\* maxLength option (10 by default)
C19_EveryLoopIsCapped ==
    last.op = "generate" =>
        /\ last.raised = "no"
        /\ last.attempts <= 1 + (IF TopSchema.constraints = <<>> THEN 10
                                 ELSE TopSchema.constraints[1].retries)
        /\ (TopGen.k = "array" /\ last.attempts = 1) =>
              LET opts == bags[TopSchema.currentOptions]
                  most == Coalesce(opts["length"], Coalesce(opts["maxLength"], Num(10)))
              IN  most[1] = "num" => Len(Children) <= 5 * most[2] + 20

\* what follows call i in the log up to the next call its caller makes
Within(i) ==
    {j \in Entries :
        /\ j > i
        /\ \A m \in Entries :
              (i < m /\ m <= j + 1 /\ IsCall(m)) => last.log[m][3] > last.log[i][3]}

HasKey(v, key) == v[1] = "obj" /\ \E n \in DOMAIN v[2] : v[2][n][1] = key

\* C20: a dependent field of an object invokes the wrapped schema, once, exactly
\* when its condition is true of the partially built parent; when it is false
\* or throws nothing is invoked or drawn and the object gets no such key, and a
\* dependent schema without a parent yields undefined
C20_DependentFollowsCondition ==
    (last.op = "generate" /\ last.raised = "no" /\ TopSchema.constraints = <<>>) =>
        /\ TopGen.k = "dependent" =>
              /\ last.value = Undefined
              /\ \A j \in Entries : j > 2 => ~IsCall(j) /\ ~IsDraw(j)
        /\ TopGen.k = "object" =>
              \A n \in DOMAIN Children :
                  LET i    == Children[n]
                      self == schemas[last.log[i][2]]
                      g    == self.generatorFn
                      key  == last.log[i][9][2]
                      c    == CondEval(bags[g.options]["condition"][2], last.log[i][10])
                      made == {j \in Within(i) : IsCall(j)}
                  IN  (g.k = "dependent" /\ self.constraints = <<>>) =>
                          IF c = "true"
                          THEN /\ Cardinality({j \in made : last.log[j][3] = 3}) = 1
                               /\ \A j \in made :
                                     last.log[j][3] = 3 => last.log[j][2] = g.schema
                               /\ schemas[g.schema].generatorFn.k = "literal" =>
                                     PropOf(last.value, key)
                                         = schemas[g.schema].generatorFn.value
                          ELSE /\ made = {}
                               /\ \A j \in Within(i) : ~IsDraw(j)
                               /\ ~HasKey(last.value, key)

\* an object with a dependent field whose condition was true, and so has the key
C20_Witness ==
    /\ last.op = "generate" /\ last.raised = "no" /\ TopGen.k = "object"
    /\ \E n \in DOMAIN Children :
          LET g == schemas[last.log[Children[n]][2]].generatorFn
          IN  /\ g.k = "dependent"
              /\ CondEval(bags[g.options]["condition"][2], last.log[Children[n]][10]) = "true"
              /\ HasKey(last.value, last.log[Children[n]][9][2])

\* the length the array generator of the top schema settles on for the run of
\* the last call: opts.length ?? rng.nextInt(minLen, maxLen), negative as 0
ArrayTarget ==
    LET opts   == bags[TopSchema.currentOptions]
        minLen == Coalesce(opts["minLength"], Num(0))
        maxLen == Coalesce(opts["maxLength"], Num(10))
        Wide(v) == IF v[1] = "wide" THEN v[2] ELSE WOf(v[2])
        st0    == [RunOn(Heap, last.at, 0) EXCEPT
                      !.rngs = <<PCGNew(last.log[2][6][2])>>]
        length == IF Coalesce(opts["length"], NoVal) = NoVal
                  THEN WInt(NextIntWide(st0, 1, Wide(minLen), Wide(maxLen)).n)
                  ELSE opts["length"][2]
    IN  IF length < 0 THEN 0 ELSE length

\* the index and the path element call n of the top array was given
ChildIndex(n) == last.log[Children[n]][11]
ChildPath(n) == last.log[Children[n]][12]

\* C21: an array without unique has exactly the target number of elements, one
\* element call each; with unique no two elements have the same JSON text, the
\* array is no longer than the target and is shorter only after 5 * target + 20
\* element calls; every element call is given the index of the slot it is to
\* fill and the path [index], so a rejected element is generated again at the
\* same index and path
C21_ArrayLengthAndUniqueness ==
    (/\ last.op = "generate"
     /\ last.raised = "no"
     /\ TopGen.k = "array"
     /\ TopSchema.constraints = <<>>) =>
        LET unique == Truthy(bags[TopSchema.currentOptions]["unique"])
            items  == last.value[2]
            calls  == Len(Children)
        IN  /\ ~unique => Len(items) = ArrayTarget /\ calls = ArrayTarget
            /\ unique =>
                  /\ \A i, j \in DOMAIN items :
                        i # j => JsonText(items[i]) # JsonText(items[j])
                  /\ Len(items) <= ArrayTarget
                  /\ Len(items) < ArrayTarget => calls = 5 * ArrayTarget + 20
            /\ \A i \in DOMAIN items : \E n \in 1 .. calls : ChildIndex(n) = Num(i - 1)
            /\ \A n \in 1 .. calls :
                  /\ ChildIndex(n)[2] \in 0 .. Len(items)
                  /\ ChildPath(n) = Str("[" \o ToString(ChildIndex(n)[2]) \o "]")
                  /\ n > 1 => ChildIndex(n)[2] \in {ChildIndex(n - 1)[2],
                                                    ChildIndex(n - 1)[2] + 1}
                  /\ n = 1 => ChildIndex(n) = Num(0)

\* a unique array that fell short of its target: some element was rejected and
\* generated again at the same index
C21_Witness ==
    /\ last.op = "generate"
    /\ last.raised = "no"
    /\ TopGen.k = "array"
    /\ TopSchema.constraints = <<>>
    /\ Truthy(bags[TopSchema.currentOptions]["unique"])
    /\ Len(last.value[2]) = 3
    /\ Len(last.value[2]) < ArrayTarget
    /\ \E n \in 2 .. Len(Children) : ChildIndex(n) = ChildIndex(n - 1)

\* the path of call i of the log, as a string
PathOf(i) == last.log[i][12][2]

\* C22: a field k of an object under path p is called with path p.k, or k
\* when p is empty; element i of an array under path p with path p[i] and
\* index i; call i of generateMany with path [i] and index i; a wrapper hands
\* its own path on
C22_PathFollowsParent ==
    last.op \in {"generate", "generateMany"} =>
        \A i \in Entries :
            IsCall(i) =>
                LET child == last.log[i]
                IN  IF child[3] > 1
                    THEN LET parent == last.log[Caller(i)]
                             by == schemas[parent[2]].generatorFn.k
                             p  == PathOf(Caller(i))
                         IN  CASE by = "object" ->
                                      child[12] = Str(IF p = "" THEN child[9][2]
                                                      ELSE p \o "." \o child[9][2])
                               [] by = "array" ->
                                      /\ child[11][1] = "num"
                                      /\ child[12] = Str(p \o "[" \o ToString(child[11][2])
                                                            \o "]")
                               [] OTHER -> child[12] = parent[12] /\ child[11] = parent[11]
                    ELSE IF last.op = "generateMany"
                    THEN /\ last.log[i - 2][1] = "element"
                         /\ child[11] = Num(last.log[i - 2][2])
                         /\ child[12] = Str("[" \o ToString(last.log[i - 2][2]) \o "]")
                    ELSE child[12] = Str("")

\* generateMany over an object: field a of element 0 was called with path [0].a,
\* and an element of an array in a field with path a[0]
C22_Witness ==
    /\ last.op = "generateMany"
    /\ \E i \in Entries : IsCall(i) /\ last.log[i][3] = 2 /\ PathOf(i) = "[0].a"
    /\ \E i \in Entries : IsCall(i) /\ last.log[i][3] = 3 /\ PathOf(i) = "[1].a[0]"

\* the characters of a string option of the top schema, "" when it is not set
TopText(key) == OrElse(bags[TopSchema.currentOptions][key], Text(<<>>))[2]

\* C23: a string schema with a length option L and no exclude option returns
\* prefix + body + suffix, the body being L characters of the chars option
\* (of the default alphabet when it is not set); generate raises nothing
C23_FixedLengthString ==
    (/\ last.op = "generate"
     /\ TopGen.k = "string"
     /\ TopSchema.constraints = <<>>
     /\ Has(bags[TopSchema.currentOptions]["length"])
     /\ ~Has(bags[TopSchema.currentOptions]["exclude"])) =>
        LET L      == bags[TopSchema.currentOptions]["length"][2]
            chars  == OrElse(bags[TopSchema.currentOptions]["chars"], Text(DefaultChars))[2]
            prefix == TopText("prefix")
            suffix == TopText("suffix")
        IN  /\ last.raised = "no"
            /\ last.value[1] = "text"
            /\ Len(last.value[2]) = Len(prefix) + L + Len(suffix)
            /\ SubSeq(last.value[2], 1, Len(prefix)) = prefix
            /\ SubSeq(last.value[2], Len(prefix) + L + 1, Len(last.value[2])) = suffix
            /\ \A i \in Len(prefix) + 1 .. Len(prefix) + L :
                  \E n \in DOMAIN chars : chars[n] = last.value[2][i]

\* the digit at position r from the right of a number, position 0 being the
\* check digit, as it counts in the checksum: doubled, less 9 when that exceeds
\* 9, at the odd positions
Weighted(number, r) ==
    LET d == number[Len(number) - r]
    IN  IF r % 2 = 0 THEN d ELSE IF 2 * d > 9 THEN 2 * d - 9 ELSE 2 * d

RECURSIVE WeightedSum(_, _)
WeightedSum(number, r) ==
    IF r >= Len(number) THEN 0 ELSE Weighted(number, r) + WeightedSum(number, r + 1)

\* C24: a generated card number of 16 digits (visa, mastercard, discover) has
\* a weighted alternating-digit checksum that is a multiple of 10, the doubled
\* positions being every second one from the digit next to the check digit
C24_SixteenDigitChecksum ==
    (last.op = "card" /\ Len(last.value) = 16) =>
        /\ \A i \in DOMAIN last.value : last.value[i] \in 0 .. 9
        /\ WeightedSum(last.value, 0) % 10 = 0

\* a 16-digit number whose check digit is not 0, made as the second card on
\* one PCG object
C24_Witness ==
    /\ last.op = "card"
    /\ last.calls = 2
    /\ Len(last.value) = 16
    /\ last.value[16] # 0
    /\ last.value[1] = 6

\* C30: every generated card number, those of 15 digits (amex) included, passes
\* the Luhn check
C30_EveryCardPassesLuhn ==
    last.op = "card" =>
        /\ Len(last.value) \in {15, 16}
        /\ WeightedSum(last.value, 0) % 10 = 0

\* a string of 36 characters: hyphens at 8, 13, 18 and 23, 4 at 14, one of 8, 9,
\* a, b at 19, lowercase hex digits elsewhere (positions counted from 0)
IsUuid(v) ==
    /\ v[1] = "text"
    /\ Len(v[2]) = 36
    /\ \A p \in 0 .. 35 :
          LET c == v[2][p + 1]
          IN  CASE p \in {8, 13, 18, 23} -> c = "-"
                [] p = 14 -> c = "4"
                [] p = 19 -> c \in {"8", "9", "a", "b"}
                [] OTHER -> \E n \in DOMAIN HexChars : HexChars[n] = c

\* C25: a uuid schema generates a value of the uuid form with exactly 31
\* draws; so does every element of generateMany and of an array of uuids
C25_UuidFormAndDraws ==
    (last.op \in {"generate", "generateMany"} /\ last.raised = "no") =>
        /\ (TopGen.k = "uuid" /\ last.op = "generate") =>
              IsUuid(last.value) /\ Cardinality(Draws) = 31
        /\ (TopGen.k = "uuid" /\ last.op = "generateMany") =>
              /\ \A i \in DOMAIN last.value[2] : IsUuid(last.value[2][i])
              /\ Cardinality(Draws) = 31 * Len(last.value[2])
        /\ (/\ last.op = "generate"
            /\ TopGen.k = "array"
            /\ schemas[TopGen.elementSchema].generatorFn.k = "uuid") =>
              /\ \A i \in DOMAIN last.value[2] : IsUuid(last.value[2][i])
              /\ Cardinality(Draws) =
                    31 * Len(last.value[2])
                    + (IF Has(bags[TopSchema.currentOptions]["length"]) THEN 0 ELSE 1)

\* a uuid whose variant character is b, and two uuids made by generateMany
C25_Witness ==
    \/ /\ last.op = "generate" /\ TopGen.k = "uuid"
       /\ last.value[2][20] = "b" /\ last.value[2][1] \in {"c", "d", "e", "f"}
    \/ /\ last.op = "generateMany" /\ TopGen.k = "uuid"
       /\ Len(last.value[2]) = 2 /\ last.value[2][1] # last.value[2][2]

\* what a later combinator makes of schema s: the heap after s.optional(p),
\* s.transform(fn), s.pipe(..tf) and s.length(2)
DerivedFrom(s) ==
    {OptionalOp(s, prob) : prob \in Probabilities}
        \cup {TransformOp(s, fn) : fn \in Functions}
        \cup {PipeOp(s, tf) : tf \in Pipelines}
        \cup {CloneWithOptions(s, Set1("length", Num(2)))}

\* the value of the wrapped generator inside the result v of generator g: the
\* functions of Functions put their argument first in an array
RECURSIVE Unwrapped(_, _)
Unwrapped(v, n) == IF n = 0 THEN v ELSE Unwrapped(v[2][1], n - 1)
BaseValue(v, g) ==
    CASE g.k = "transform" -> Unwrapped(v, 1)
      [] g.k = "pipe" -> Unwrapped(v, Len(g.tf))
      [] OTHER -> v

\* C26: a schema made from a constrained schema s by optional, transform, pipe
\* or an option setter is still under the constraints of s: for every seed its
\* value is null, or built from a base value that satisfies them, or the call
\* made all the attempts of the budget
C26_ConstraintsSurviveCombinators ==
    [][\A s \in Ids :
          schemas[s].constraints # <<>> =>
              \A h \in DerivedFrom(s) :
                  (schemas' = h.schemas /\ bags' = h.bags) =>
                      \A k \in Seeds :
                          LET d == Len(h.schemas)
                              r == GenerateS(d, [EmptyCo EXCEPT !.seed = Num(k)],
                                             RunOn([schemas |-> h.schemas, bags |-> h.bags],
                                                   StartTime, 0))
                          IN  \/ r.v = Null
                              \/ FirstFailing(schemas[s].constraints,
                                              BaseValue(r.v, h.schemas[d].generatorFn), 1) = 0
                              \/ r.attempts = MaxTotalAttempts(schemas[s].constraints)]_vars

\* the option values the fluent setters are called with
OptionWrites ==
    {<<"length", Num(2)>>, <<"sort", Bool(TRUE)>>, <<"sort", Fn("desc")>>,
     <<"exclude", Text(<<"b">>)>>, <<"exclude", RegExp({"a"})>>,
     <<"exclude", Arr(<<Text(<<"b">>), RegExp({"a"})>>)>>}

\* the schema a setter made on heap h holds the value w it was given, and
\* generates by it: a sorted array is in the order of the comparator, the body
\* of a string has no character its exclude option matches
OptionReaches(h, w) ==
    LET d    == Len(h.schemas)
        g    == h.schemas[d].generatorFn
        opts == h.bags[h.schemas[d].currentOptions]
    IN  /\ opts[w[1]] = w[2]
        /\ \A k \in Seeds :
              LET r == GenerateS(d, [EmptyCo EXCEPT !.seed = Num(k)],
                                 RunOn([schemas |-> h.schemas, bags |-> h.bags],
                                       StartTime, 0))
                  body == SubSeq(r.v[2], Len(OrElse(opts["prefix"], Text(<<>>))[2]) + 1,
                                 Len(r.v[2]) - Len(OrElse(opts["suffix"], Text(<<>>))[2]))
              IN  /\ (g.k = "array" /\ w[1] = "sort" /\ w[2][1] = "fn" /\ ~Ended(r.st)) =>
                        \A i, j \in DOMAIN r.v[2] :
                            i < j => ~ComparesAfter(w[2][2], r.v[2][i], r.v[2][j])
                  /\ (g.k = "string" /\ w[1] = "exclude" /\ ~Ended(r.st)) =>
                        \A i \in DOMAIN body : ~Excluded(w[2], body[i])

\* C27: the value a fluent setter is given is the value of that option in the
\* bag of the schema it makes, and the generator works by it
C27_OptionValuesReachGenerator ==
    [][\A s \in Ids : \A w \in OptionWrites :
          LET h == CloneWithOptions(s, Set1(w[1], w[2]))
          IN  (schemas' = h.schemas /\ bags' = h.bags) => OptionReaches(h, w)]_vars

\* C28: two PCG objects made from different integer seeds are in different
\* states, when they are made and after the same number of draws, and their
\* draws are not the same sequence
C28_DifferentSeedsDifferentStreams ==
    (last.op \in {"second PCG", "both next"} /\ last.seed[2] # last.seed[3]) =>
        /\ last.rngs[1] # last.rngs[2]
        /\ last.calls = MaxDraws =>
              \E i \in Draws : \E j \in Draws :
                  /\ last.log[i][2] = 1 /\ last.log[j][2] = 2
                  /\ last.log[i][3] # last.log[j][3]

\* C29: for min <= max and neither flag set the number generated lies
\* between min and max, whatever integer, precision and the distribution are
\* and whether or not the bounds are integers; with both flags set it is 0
C29_NumberWithinBounds ==
    last.op = "number" =>
        LET opts == last.seed
        IN  /\ (opts.positive = NoVal /\ opts.negative = NoVal) =>
                  Le(opts.min, last.value) /\ Le(last.value, opts.max)
            /\ (opts.positive = Bool(TRUE) /\ opts.negative = Bool(TRUE)) =>
                  last.value = Num(0)

\* the arguments a generator function was made from are the ones its factory
\* accepts
WellFormed(g) ==
    CASE g.k = "enum"      -> Len(g.values) > 0
      [] g.k = "union"     -> Len(g.schemas) > 0
      [] g.k = "reference" -> Len(g.collection) > 0
      [] g.k = "custom"    -> g.fn[1] = "fn"
      [] g.k = "dependent" -> g.options \in DOMAIN bags
                              /\ bags[g.options]["condition"][1] = "fn"
      [] OTHER -> TRUE

\* C12: malformed factory arguments fail at construction: every schema that
\* exists was made from well-formed arguments, a factory call that throws
\* makes no schema, and no generate call on a schema that was returned raises
C12_MalformedFailsAtConstruction ==
    /\ [](\A sid \in Ids : WellFormed(schemas[sid].generatorFn))
    /\ [](last.op = "generate" => last.raised = "no")
    /\ [][last'.op = "threw" => last.op = "none" /\ schemas' = schemas]_vars

C12_Witness ==
    /\ last.op = "threw"
    /\ last.raised \in {"custom", "reference"}
    /\ \E sid \in Ids : schemas[sid].generatorFn.k \in {"custom", "reference"}
====
